---------------------------- MODULE Spec2Model ----------------------------
(***************************************************************************)
(* Brand presence audit (src/brand_audit.py): the BrandAuditor class, its  *)
(* report writers and the command-line entry point main(); and the         *)
(* question loop, the polling loop and save_results of the capture         *)
(* component (src/amazon_rufus_automation.py).                             *)
(*                                                                         *)
(* A Python str is a sequence of characters; a character is a one-letter   *)
(* TLA+ string, except the two non-ASCII characters the model carries:     *)
(*   "I_DOT"     U+0130, LATIN CAPITAL LETTER I WITH DOT ABOVE             *)
(*   "DOT_ABOVE" U+0307, COMBINING DOT ABOVE                               *)
(* A Python dict is a sequence of <<key, value>> pairs with distinct keys, *)
(* in insertion order.  Offsets into a str are 0-based, as in Python.      *)
(***************************************************************************)
EXTENDS Integers, Sequences, FiniteSets, TLC

VARIABLES
    pc,                 \* the position of the run
    argv,               \* the parsed command line (argparse namespace)
    fs,                 \* the file system: path -> content
    clock,              \* datetime.now()
    your_brands,        \* main's local your_brands
    competitor_brands,  \* main's local competitor_brands
    auditor,            \* the BrandAuditor instance (its three fields)
    text,               \* the argument of find_brand_mentions
    mentions,           \* the result of find_brand_mentions
    audit_results,      \* the result of audit_responses
    output_file,        \* main's local output_file
    formats,            \* main's list formats, the part not yet written
    unwritable,         \* the paths open(path, 'w') fails on
    opened,             \* every open() so far, in order: <<path, mode>>
    stdout,             \* what print() wrote
    error,              \* the exception or usage error that ended the run
    exit_code,          \* the process's exit status
    peer,               \* a second invocation, while this one runs
    questions,          \* the argument of ask_questions
    question_index,     \* the i of "for i, question in enumerate(questions, 1)"
    question_results,   \* the local list results of ask_questions
    self_results,       \* the results of the AmazonRufusAutomation instance
    waited,             \* the local waited of _wait_for_response_complete
    asked,              \* the questions ask_question was called with, in order
    outcomes,           \* for every call that returned: did it return a record
    polls               \* the iterations of the polling loop for this question

(* the state of the capture component (src/amazon_rufus_automation.py) *)
captureVars == <<questions, question_index, question_results, self_results,
                 waited, asked, outcomes, polls>>

vars == <<pc, argv, fs, clock, your_brands, competitor_brands, auditor, text,
          mentions, audit_results, output_file, formats, unwritable, opened,
          stdout, error, exit_code, peer, captureVars>>

None == "None"

Max(a, b) == IF a >= b THEN a ELSE b

Min(a, b) == IF a <= b THEN a ELSE b

Range(s) == {s[i] : i \in DOMAIN s}

(* The element of a singleton.  The({e : x \in {v}}) is e with x naming    *)
(* the value of v, computed once.                                          *)
The(S) == CHOOSE x \in S : TRUE

RECURSIVE Sum(_)
Sum(s) == IF s = <<>> THEN 0 ELSE Head(s) + Sum(Tail(s))

RECURSIVE Concat(_)
Concat(ss) == IF ss = <<>> THEN <<>> ELSE Head(ss) \o Concat(Tail(ss))

----------------------------------------------------------------------------
(* dict *)

DictKeys(d) == [i \in DOMAIN d |-> d[i][1]]

DictValues(d) == [i \in DOMAIN d |-> d[i][2]]

DictHas(d, k) == \E i \in DOMAIN d : d[i][1] = k

DictGet(d, k) == d[CHOOSE i \in DOMAIN d : d[i][1] = k][2]

(* d[k] = v: an existing key keeps its place *)
DictSet(d, k, v) ==
    IF DictHas(d, k)
    THEN [i \in DOMAIN d |-> IF d[i][1] = k THEN <<k, v>> ELSE d[i]]
    ELSE Append(d, <<k, v>>)

----------------------------------------------------------------------------
(* str *)

LowerLetters ==
    <<"a","b","c","d","e","f","g","h","i","j","k","l","m",
      "n","o","p","q","r","s","t","u","v","w","x","y","z">>

UpperLetters ==
    <<"A","B","C","D","E","F","G","H","I","J","K","L","M",
      "N","O","P","Q","R","S","T","U","V","W","X","Y","Z">>

Digits == {"0","1","2","3","4","5","6","7","8","9"}

Whitespace == {" ", "\n", "\t"}

IsUpper(c) == \E i \in DOMAIN UpperLetters : UpperLetters[i] = c

AsciiLower(c) ==
    IF IsUpper(c)
    THEN LowerLetters[CHOOSE i \in DOMAIN UpperLetters : UpperLetters[i] = c]
    ELSE c

(* str.lower() of one character: U+0130 lowers to the two characters       *)
(* U+0069 U+0307, every other character of the model to one character.     *)
LowerChar(c) == IF c = "I_DOT" THEN <<"i", "DOT_ABOVE">> ELSE <<AsciiLower(c)>>

lower(s) == Concat([i \in DOMAIN s |-> LowerChar(s[i])])

RECURSIVE lstrip(_)
lstrip(s) ==
    IF s # <<>> /\ Head(s) \in Whitespace THEN lstrip(Tail(s)) ELSE s

RECURSIVE rstrip(_)
rstrip(s) ==
    IF s # <<>> /\ s[Len(s)] \in Whitespace
    THEN rstrip(SubSeq(s, 1, Len(s) - 1))
    ELSE s

strip(s) == rstrip(lstrip(s))

(* s[a:b] for 0 <= a <= b <= len(s) *)
Slice(s, a, b) == SubSeq(s, a + 1, b)

----------------------------------------------------------------------------
(* re *)

(* \w of a str pattern: alphanumeric or underscore; U+0130 is a letter,    *)
(* U+0307 a combining mark.                                                *)
IsWordChar(c) ==
    \/ c \in Range(LowerLetters) \cup Range(UpperLetters) \cup Digits
    \/ c = "_"
    \/ c = "I_DOT"

(* The engine's case folding under re.IGNORECASE: one character to one     *)
(* character (the simple lower case, U+0130 to U+0069).                    *)
FoldChar(c) == IF c = "I_DOT" THEN "i" ELSE AsciiLower(c)

Lit(c) == [kind |-> "lit", ch |-> c]

WordBoundary == [kind |-> "bound", ch |-> ""]

AnyChar == [kind |-> "any", ch |-> ""]

(* re.escape: every character of the name becomes an atom that matches     *)
(* that character and nothing else.                                        *)
re_escape(s) == [i \in DOMAIN s |-> Lit(s[i])]

(* re_compile without the two \b *)
re_compile_unanchored(escaped_brand) ==
    [atoms |-> escaped_brand, ignorecase |-> TRUE]

(* re.compile(r'\b' + escaped_brand + r'\b', re.IGNORECASE) *)
re_compile(escaped_brand) ==
    [atoms |-> <<WordBoundary>> \o escaped_brand \o <<WordBoundary>>,
     ignorecase |-> TRUE]

(* \b at offset pos of t *)
AtBoundary(t, pos) ==
    LET before == pos > 0 /\ IsWordChar(t[pos])
        after  == pos < Len(t) /\ IsWordChar(t[pos + 1])
    IN  before # after

CharMatches(pattern, a, c) ==
    IF pattern.ignorecase THEN FoldChar(a) = FoldChar(c) ELSE a = c

(* The end offset of a match of atoms i.. of the pattern at offset pos of  *)
(* t, or -1.                                                               *)
RECURSIVE MatchAtoms(_, _, _, _)
MatchAtoms(pattern, i, t, pos) ==
    IF i > Len(pattern.atoms) THEN pos
    ELSE LET a == pattern.atoms[i]
         IN  CASE a.kind = "bound" ->
                    IF AtBoundary(t, pos)
                    THEN MatchAtoms(pattern, i + 1, t, pos) ELSE -1
               [] a.kind = "lit" ->
                    IF pos < Len(t) /\ CharMatches(pattern, a.ch, t[pos + 1])
                    THEN MatchAtoms(pattern, i + 1, t, pos + 1) ELSE -1
               [] OTHER ->
                    IF pos < Len(t) /\ t[pos + 1] # "\n"
                    THEN MatchAtoms(pattern, i + 1, t, pos + 1) ELSE -1

(* The first offset from pos on at which the pattern matches, or -1: the   *)
(* engine tries the offsets from left to right.                            *)
FirstMatch(pattern, t, pos) ==
    The({ IF starts = {} THEN -1
          ELSE CHOOSE p \in starts : \A q \in starts : p <= q
          : starts \in {{p \in pos..Len(t) : MatchAtoms(pattern, 1, t, p) # -1}} })

(* pattern.search(t): the first match only *)
finditer_first(pattern, t, pos) ==
    The({ IF p = -1 THEN <<>>
          ELSE <<[start |-> p, end |-> MatchAtoms(pattern, 1, t, p)]>>
          : p \in {FirstMatch(pattern, t, pos)} })

(* pattern.finditer(t) from offset pos on: the non-overlapping matches,    *)
(* left to right; after an empty match the scan moves on one character.    *)
RECURSIVE finditer(_, _, _)
finditer(pattern, t, pos) ==
    The({ IF p = -1 THEN <<>>
          ELSE The({ <<[start |-> p, end |-> e]>>
                     \o finditer(pattern, t, IF e = p THEN p + 1 ELSE e)
                     : e \in {MatchAtoms(pattern, 1, t, p)} })
          : p \in {FirstMatch(pattern, t, pos)} })

----------------------------------------------------------------------------
(* str() of numbers and the formats of datetime *)

DigitChars == <<"0","1","2","3","4","5","6","7","8","9">>

DigitOf(n) == DigitChars[n + 1]

(* the last decimal digit alone *)
str_int_units(n) == <<DigitOf(n % 10)>>

(* str(n), n >= 0: the decimal digits of n, f"{n}" and csv.writer's and    *)
(* json.dump's text of an int                                              *)
RECURSIVE str_int(_)
str_int(n) ==
    IF n < 10 THEN <<DigitOf(n)>>
    ELSE str_int(n \div 10) \o <<DigitOf(n % 10)>>

(* repr() of a presence rate: the int 0 is "0"; a float rounded to         *)
(* hundredths is its integer part, "." and its decimals without a trailing *)
(* zero, one decimal at least ("50.0", "33.33", "66.7")                    *)
str_rate(rate) ==
    IF ~rate.is_float THEN str_int(rate.x100 \div 100)
    ELSE str_int(rate.x100 \div 100) \o <<".">>
         \o (IF rate.x100 % 10 = 0
             THEN <<DigitOf((rate.x100 % 100) \div 10)>>
             ELSE <<DigitOf((rate.x100 % 100) \div 10), DigitOf(rate.x100 % 10)>>)

str_bool(b) == IF b THEN <<"T","r","u","e">> ELSE <<"F","a","l","s","e">>

(* sep.join(list) *)
RECURSIVE join(_, _)
join(sep, list) ==
    IF list = <<>> THEN <<>>
    ELSE IF Len(list) = 1 THEN Head(list)
    ELSE Head(list) \o sep \o join(sep, Tail(list))

(* datetime.now() is the clock: whole seconds after 2024-01-01T00:00:00,   *)
(* less than a minute                                                      *)
TwoDigits(n) == <<DigitOf(n \div 10), DigitOf(n % 10)>>

(* now.isoformat() *)
isoformat(now) == <<"2024-01-01T00:00:">> \o TwoDigits(now)

(* now.strftime("%Y%m%d_%H%M%S") *)
strftime(now) == <<"20240101_0000">> \o TwoDigits(now)

----------------------------------------------------------------------------
(* class BrandAuditor *)

ContextChars == 50

NormalizeBrands(brands) == [i \in DOMAIN brands |-> strip(lower(brands[i]))]

BrandPattern(brand) == re_compile(re_escape(brand))

(* a pattern for every entry of all_brands, a repeated name included *)
RECURSIVE BuildPatterns_list(_, _)
BuildPatterns_list(patterns, all_brands) ==
    IF all_brands = <<>> THEN patterns
    ELSE BuildPatterns_list(
             Append(patterns, <<Head(all_brands), BrandPattern(Head(all_brands))>>),
             Tail(all_brands))

(* the loop of __init__ over all_brands[i..]: brand_patterns[brand] = pattern *)
RECURSIVE BuildPatterns(_, _)
BuildPatterns(patterns, all_brands) ==
    IF all_brands = <<>> THEN patterns
    ELSE BuildPatterns(
             DictSet(patterns, Head(all_brands), BrandPattern(Head(all_brands))),
             Tail(all_brands))

BrandAuditor_init(yours, competitors) ==
    LET yb == NormalizeBrands(yours)
        cb == NormalizeBrands(competitors)
    IN  [your_brands       |-> yb,
         competitor_brands |-> cb,
         all_brands        |-> yb \o cb,
         brand_patterns    |-> BuildPatterns(<<>>, yb \o cb)]

(* (start, context) of one match *)
MentionOf(t, m) ==
    LET context_start == Max(0, m.start - ContextChars)
        context_end   == Min(Len(t), m.end + ContextChars)
    IN  <<m.start, strip(Slice(t, context_start, context_end))>>

MentionsOfPattern(pattern, t) ==
    The({ [i \in DOMAIN ms |-> MentionOf(t, ms[i])]
          : ms \in {finditer(pattern, t, 0)} })

(* the loop with a key for every brand, matched or not *)
RECURSIVE MentionsLoop_every(_, _)
MentionsLoop_every(patterns, t) ==
    IF patterns = <<>> THEN <<>>
    ELSE The({ <<<<Head(patterns)[1], found>>>>
               \o MentionsLoop_every(Tail(patterns), t)
               : found \in {MentionsOfPattern(Head(patterns)[2], t)} })

(* the loop of find_brand_mentions over brand_patterns.items(): a brand    *)
(* gets a key only when its pattern matches (defaultdict).                 *)
RECURSIVE MentionsLoop(_, _)
MentionsLoop(patterns, t) ==
    IF patterns = <<>> THEN <<>>
    ELSE The({ (IF found = <<>> THEN <<>> ELSE <<<<Head(patterns)[1], found>>>>)
               \o MentionsLoop(Tail(patterns), t)
               : found \in {MentionsOfPattern(Head(patterns)[2], t)} })

find_brand_mentions(self, t) == MentionsLoop(self.brand_patterns, t)

(* response_data.get(key): None for a missing key, formatted "None" *)
Get_none(d, key, default) ==
    IF key \in DOMAIN d THEN d[key] ELSE <<"N", "o", "n", "e">>

(* response_data.get(key, default) *)
Get(d, key, default) == IF key \in DOMAIN d THEN d[key] ELSE default

InList(x, list) == \E i \in DOMAIN list : list[i] = x

(* the loop with two tests, "if brand in self.your_brands" and "if brand   *)
(* in self.competitor_brands"                                              *)
RECURSIVE Categorize_both(_, _, _)
Categorize_both(self, ms, own) ==
    IF ms = <<>> THEN <<>>
    ELSE LET brand == Head(ms)[1]
             keep  == IF own THEN InList(brand, self.your_brands)
                      ELSE InList(brand, self.competitor_brands)
         IN  (IF keep THEN <<Head(ms)>> ELSE <<>>)
             \o Categorize_both(self, Tail(ms), own)

(* the entries of mentions that the loop of analyze_response puts in       *)
(* your_brand_mentions (own = TRUE) or in competitor_mentions              *)
RECURSIVE Categorize(_, _, _)
Categorize(self, ms, own) ==
    IF ms = <<>> THEN <<>>
    ELSE LET brand == Head(ms)[1]
             mine  == InList(brand, self.your_brands)
             keep  == IF own THEN mine
                      ELSE ~mine /\ InList(brand, self.competitor_brands)
         IN  (IF keep THEN <<Head(ms)>> ELSE <<>>)
             \o Categorize(self, Tail(ms), own)

(* every mentioned brand with the count 1 *)
CountsOf_one(d) == [i \in DOMAIN d |-> <<d[i][1], 1>>]

(* {brand: len(contexts) for brand, contexts in mentions.items()} *)
CountsOf(d) == [i \in DOMAIN d |-> <<d[i][1], Len(d[i][2])>>]

(* the dictionary analyze_response returns *)
AnalysisOf(question, timestamp, response_text, your_brand_mentions, competitor_mentions) ==
    LET your_brand_count ==
            Sum([i \in DOMAIN your_brand_mentions |-> Len(your_brand_mentions[i][2])])
        competitor_count ==
            Sum([i \in DOMAIN competitor_mentions |-> Len(competitor_mentions[i][2])])
    IN  [question                    |-> question,
         timestamp                   |-> timestamp,
         your_brands_mentioned       |-> DictKeys(your_brand_mentions),
         competitor_brands_mentioned |-> DictKeys(competitor_mentions),
         your_brand_mentions         |-> CountsOf(your_brand_mentions),
         competitor_mentions         |-> CountsOf(competitor_mentions),
         your_brand_count            |-> your_brand_count,
         competitor_count            |-> competitor_count,
         total_mentions              |-> your_brand_count + competitor_count,
         mentions_with_context       |-> [your_brands |-> your_brand_mentions,
                                          competitors |-> competitor_mentions],
         has_your_brands             |-> Len(your_brand_mentions) > 0,
         has_competitors             |-> Len(competitor_mentions) > 0,
         response_length             |-> Len(response_text)]

(* the analysis of the response alone, the question left out of the text *)
analyze_response_only(self, response_data) ==
    LET question      == Get(response_data, "question", <<>>)
        response_text == Get(response_data, "response", <<>>)
        timestamp     == Get(response_data, "timestamp", <<>>)
    IN  The({ The({ AnalysisOf(question, timestamp, response_text,
                               your_brand_mentions, competitor_mentions)
                    : your_brand_mentions \in {Categorize(self, found, TRUE)},
                      competitor_mentions \in {Categorize(self, found, FALSE)} })
              : found \in {find_brand_mentions(self, response_text)} })

analyze_response(self, response_data) ==
    LET question      == Get(response_data, "question", <<>>)
        response_text == Get(response_data, "response", <<>>)
        timestamp     == Get(response_data, "timestamp", <<>>)
        full_text     == question \o <<"\n", "\n">> \o response_text
    IN  The({ The({ AnalysisOf(question, timestamp, response_text,
                               your_brand_mentions, competitor_mentions)
                    : your_brand_mentions \in {Categorize(self, found, TRUE)},
                      competitor_mentions \in {Categorize(self, found, FALSE)} })
              : found \in {find_brand_mentions(self, full_text)} })

(* the conditions of the four counting expressions of audit_responses *)
WithYourBrands(a) == a.has_your_brands

WithCompetitors(a) == a.has_competitors

WithBoth(a) == a.has_your_brands /\ a.has_competitors

WithNeither_or(a) == ~(a.has_your_brands /\ a.has_competitors)

WithNeither(a) == ~a.has_your_brands /\ ~a.has_competitors

(* sum(1 for a in response_analyses if P(a)), P given as a flag per entry *)
CountTrue(flags) == Sum([i \in DOMAIN flags |-> IF flags[i] THEN 1 ELSE 0])

(* counter[brand] = count *)
RECURSIVE AddCounts_assign(_, _)
AddCounts_assign(counter, d) ==
    IF d = <<>> THEN counter
    ELSE AddCounts_assign(DictSet(counter, Head(d)[1], Head(d)[2]), Tail(d))

(* counter[brand] += count for every item of one analysis's dict *)
RECURSIVE AddCounts(_, _)
AddCounts(counter, d) ==
    IF d = <<>> THEN counter
    ELSE LET brand == Head(d)[1]
             old   == IF DictHas(counter, brand) THEN DictGet(counter, brand) ELSE 0
         IN  AddCounts(DictSet(counter, brand, old + Head(d)[2]), Tail(d))

(* the Counter filled by the loop over response_analyses *)
RECURSIVE Frequency(_, _, _)
Frequency(counter, analyses, own) ==
    IF analyses = <<>> THEN counter
    ELSE Frequency(
             AddCounts(counter,
                       IF own THEN Head(analyses).your_brand_mentions
                       ELSE Head(analyses).competitor_mentions),
             Tail(analyses), own)

(* A float is the exact fraction num/den; is_float tells it from an int.   *)
(* (x / total * 100) if total > 0 else 0                                   *)
PresenceRate(x, total) ==
    IF total > 0
    THEN [is_float |-> TRUE, num |-> x * 100, den |-> total]
    ELSE [is_float |-> FALSE, num |-> 0, den |-> 1]

(* the rate cut to two decimal places *)
round2_truncate(rate) ==
    [is_float |-> rate.is_float, x100 |-> (rate.num * 100) \div rate.den]

(* round(rate, 2) in hundredths: the nearest, a tie to the even one.  The  *)
(* double k/total*100 is within 1e-13 of the fraction, and a fraction that *)
(* is no tie is further than that from one.                                *)
round2(rate) ==
    LET n == rate.num * 100
        q == n \div rate.den
        r == n % rate.den
    IN  [is_float |-> rate.is_float,
         x100 |-> IF 2 * r < rate.den THEN q
                  ELSE IF 2 * r > rate.den THEN q + 1
                  ELSE IF q % 2 = 0 THEN q ELSE q + 1]

BrandStats(frequency, analyses, own) ==
    [i \in DOMAIN frequency |->
        <<frequency[i][1],
          [total_mentions |-> frequency[i][2],
           responses_mentioned_in |->
               CountTrue([j \in DOMAIN analyses |->
                   InList(frequency[i][1],
                          IF own THEN analyses[j].your_brands_mentioned
                          ELSE analyses[j].competitor_brands_mentioned)])]>>]

(* the dictionary audit_responses returns *)
ReportOf(response_analyses, your_brand_frequency, competitor_frequency, responses_file, now) ==
    LET total_responses == Len(response_analyses)
        responses_with_your_brands ==
            CountTrue([i \in DOMAIN response_analyses |->
                WithYourBrands(response_analyses[i])])
        responses_with_competitors ==
            CountTrue([i \in DOMAIN response_analyses |->
                WithCompetitors(response_analyses[i])])
        responses_with_both ==
            CountTrue([i \in DOMAIN response_analyses |->
                WithBoth(response_analyses[i])])
        responses_with_neither ==
            CountTrue([i \in DOMAIN response_analyses |->
                WithNeither(response_analyses[i])])
        your_brand_presence_rate ==
            PresenceRate(responses_with_your_brands, total_responses)
        competitor_presence_rate ==
            PresenceRate(responses_with_competitors, total_responses)
    IN  [audit_timestamp |-> isoformat(now),
         source_file |-> responses_file,
         summary |->
            [total_responses            |-> total_responses,
             responses_with_your_brands |-> responses_with_your_brands,
             responses_with_competitors |-> responses_with_competitors,
             responses_with_both        |-> responses_with_both,
             responses_with_neither     |-> responses_with_neither,
             your_brand_presence_rate   |-> round2(your_brand_presence_rate),
             competitor_presence_rate   |-> round2(competitor_presence_rate),
             total_your_brand_mentions  |-> Sum(DictValues(your_brand_frequency)),
             total_competitor_mentions  |-> Sum(DictValues(competitor_frequency))],
         brand_statistics |->
            [your_brands |-> BrandStats(your_brand_frequency, response_analyses, TRUE),
             competitors |-> BrandStats(competitor_frequency, response_analyses, FALSE)],
         response_analyses |-> response_analyses]

(* the audit with the time of the audit for a record's missing timestamp *)
AuditOf_stamped(self, results, responses_file, now) ==
    The({ The({ ReportOf(response_analyses, your_brand_frequency,
                         competitor_frequency, responses_file, now)
                : your_brand_frequency \in {Frequency(<<>>, response_analyses, TRUE)},
                  competitor_frequency \in {Frequency(<<>>, response_analyses, FALSE)} })
          : response_analyses \in
                {[i \in DOMAIN results |->
                    [analyze_response(self, results[i]) EXCEPT
                        !.timestamp = IF @ = <<>> THEN isoformat(now) ELSE @]]} })

(* audit_responses after json.load: results is data.get("results", []) *)
AuditOf(self, results, responses_file, now) ==
    The({ The({ ReportOf(response_analyses, your_brand_frequency,
                         competitor_frequency, responses_file, now)
                : your_brand_frequency \in {Frequency(<<>>, response_analyses, TRUE)},
                  competitor_frequency \in {Frequency(<<>>, response_analyses, FALSE)} })
          : response_analyses \in
                {[i \in DOMAIN results |-> analyze_response(self, results[i])]} })

----------------------------------------------------------------------------
(* The report writers.  A JSON document is a tree of values that carry     *)
(* their text; a CSV file is its rows of cells, a text report its lines;   *)
(* a cell and a line are strings whose constant parts are one element      *)
(* each.                                                                   *)

JsonNumber(chars) == [type |-> "number", text |-> chars]

JsonString(chars) == [type |-> "string", text |-> chars]

JsonBool(b) == [type |-> "literal", text |-> IF b THEN <<"true">> ELSE <<"false">>]

JsonArray(items) == [type |-> "array", items |-> items]

JsonObject(members) == [type |-> "object", members |-> members]

json_strings(list) == JsonArray([i \in DOMAIN list |-> JsonString(list[i])])

json_counts(d) ==
    JsonObject([i \in DOMAIN d |-> <<d[i][1], JsonNumber(str_int(d[i][2]))>>])

(* a (position, context) tuple is written as an array *)
json_contexts(d) ==
    JsonObject([i \in DOMAIN d |->
        <<d[i][1],
          JsonArray([j \in DOMAIN d[i][2] |->
              JsonArray(<<JsonNumber(str_int(d[i][2][j][1])),
                          JsonString(d[i][2][j][2])>>)])>>])

json_analysis(a) ==
    JsonObject(<<
        <<"question", JsonString(a.question)>>,
        <<"timestamp", JsonString(a.timestamp)>>,
        <<"your_brands_mentioned", json_strings(a.your_brands_mentioned)>>,
        <<"competitor_brands_mentioned", json_strings(a.competitor_brands_mentioned)>>,
        <<"your_brand_mentions", json_counts(a.your_brand_mentions)>>,
        <<"competitor_mentions", json_counts(a.competitor_mentions)>>,
        <<"your_brand_count", JsonNumber(str_int(a.your_brand_count))>>,
        <<"competitor_count", JsonNumber(str_int(a.competitor_count))>>,
        <<"total_mentions", JsonNumber(str_int(a.total_mentions))>>,
        <<"mentions_with_context",
          JsonObject(<<
              <<"your_brands", json_contexts(a.mentions_with_context.your_brands)>>,
              <<"competitors", json_contexts(a.mentions_with_context.competitors)>> >>)>>,
        <<"has_your_brands", JsonBool(a.has_your_brands)>>,
        <<"has_competitors", JsonBool(a.has_competitors)>>,
        <<"response_length", JsonNumber(str_int(a.response_length))>> >>)

json_summary(summary) ==
    JsonObject(<<
        <<"total_responses", JsonNumber(str_int(summary.total_responses))>>,
        <<"responses_with_your_brands",
          JsonNumber(str_int(summary.responses_with_your_brands))>>,
        <<"responses_with_competitors",
          JsonNumber(str_int(summary.responses_with_competitors))>>,
        <<"responses_with_both", JsonNumber(str_int(summary.responses_with_both))>>,
        <<"responses_with_neither",
          JsonNumber(str_int(summary.responses_with_neither))>>,
        <<"your_brand_presence_rate",
          JsonNumber(str_rate(summary.your_brand_presence_rate))>>,
        <<"competitor_presence_rate",
          JsonNumber(str_rate(summary.competitor_presence_rate))>>,
        <<"total_your_brand_mentions",
          JsonNumber(str_int(summary.total_your_brand_mentions))>>,
        <<"total_competitor_mentions",
          JsonNumber(str_int(summary.total_competitor_mentions))>> >>)

json_brand_stats(stats) ==
    JsonObject([i \in DOMAIN stats |->
        <<stats[i][1],
          JsonObject(<<
              <<"total_mentions", JsonNumber(str_int(stats[i][2].total_mentions))>>,
              <<"responses_mentioned_in",
                JsonNumber(str_int(stats[i][2].responses_mentioned_in))>> >>)>>])

(* json.dump(audit_results, f, indent=2, ensure_ascii=False) *)
json_dump(results) ==
    JsonObject(<<
        <<"audit_timestamp", JsonString(results.audit_timestamp)>>,
        <<"source_file", JsonString(results.source_file)>>,
        <<"summary", json_summary(results.summary)>>,
        <<"brand_statistics",
          JsonObject(<<
              <<"your_brands", json_brand_stats(results.brand_statistics.your_brands)>>,
              <<"competitors", json_brand_stats(results.brand_statistics.competitors)>> >>)>>,
        <<"response_analyses",
          JsonArray([i \in DOMAIN results.response_analyses |->
              json_analysis(results.response_analyses[i])])>> >>)

JsonReport(results) == [json |-> TRUE, doc |-> json_dump(results)]

(* the path as it is, whatever the suffix *)
with_suffix_same(path, suffix) == path

(* Path.with_suffix: a path is its stem and its suffixes, after its        *)
(* directories, each followed by "/"; the last suffix is replaced, a path  *)
(* without one gets the new suffix.  A name that starts with "." has the   *)
(* dot in its stem.                                                        *)
with_suffix(path, suffix) ==
    IF Len(path) > 1 /\ path[Len(path) - 1] # "/"
    THEN SubSeq(path, 1, Len(path) - 1) \o <<suffix>>
    ELSE path \o <<suffix>>

(* the rows of the summary CSV *)
SummaryRows(summary) ==
    << <<<<"Metric">>, <<"Value">>>>,
       <<<<"Total Responses">>, str_int(summary.total_responses)>>,
       <<<<"Responses with Your Brands">>, str_int(summary.responses_with_your_brands)>>,
       <<<<"Responses with Competitors">>, str_int(summary.responses_with_competitors)>>,
       <<<<"Your Brand Presence Rate (%)">>, str_rate(summary.your_brand_presence_rate)>>,
       <<<<"Competitor Presence Rate (%)">>, str_rate(summary.competitor_presence_rate)>>,
       <<<<"Total Your Brand Mentions">>, str_int(summary.total_your_brand_mentions)>>,
       <<<<"Total Competitor Mentions">>, str_int(summary.total_competitor_mentions)>> >>

BrandRows(stats, type) ==
    [i \in DOMAIN stats |->
        <<stats[i][1], <<type>>, str_int(stats[i][2].total_mentions),
          str_int(stats[i][2].responses_mentioned_in)>>]

DetailRows(response_analyses) ==
    [i \in DOMAIN response_analyses |->
        LET analysis == response_analyses[i]
        IN  <<analysis.question,
              analysis.timestamp,
              join(<<",", " ">>, analysis.your_brands_mentioned),
              join(<<",", " ">>, analysis.competitor_brands_mentioned),
              str_int(analysis.your_brand_count),
              str_int(analysis.competitor_count),
              str_int(analysis.total_mentions),
              str_bool(analysis.has_your_brands),
              str_bool(analysis.has_competitors)>>]

CsvFile(rows) == [json |-> FALSE, rows |-> rows]

(* _save_csv_report: the three files in the order they are opened *)
save_csv_report(results, output_path) ==
    << <<with_suffix(output_path, ".summary.csv"),
         CsvFile(SummaryRows(results.summary))>>,
       <<with_suffix(output_path, ".brands.csv"),
         CsvFile(<< <<<<"Brand">>, <<"Type">>, <<"Total Mentions">>,
                      <<"Responses Mentioned In">>>> >>
                 \o BrandRows(results.brand_statistics.your_brands, "Your Brand")
                 \o BrandRows(results.brand_statistics.competitors, "Competitor"))>>,
       <<with_suffix(output_path, ".detailed.csv"),
         CsvFile(<< << <<"Question">>, <<"Timestamp">>, <<"Your Brands Mentioned">>,
                       <<"Competitor Brands Mentioned">>, <<"Your Brand Count">>,
                       <<"Competitor Count">>, <<"Total Mentions">>,
                       <<"Has Your Brands">>, <<"Has Competitors">> >> >>
                 \o DetailRows(results.response_analyses))>> >>

(* "=" * 80, "-" * 80 *)
Rule(c) == [i \in 1..80 |-> c]

(* the insertion before the entries with an equal total *)
RECURSIVE InsertByTotal_before(_, _)
InsertByTotal_before(item, sorted) ==
    IF sorted = <<>> THEN <<item>>
    ELSE IF Head(sorted)[2].total_mentions > item[2].total_mentions
    THEN <<Head(sorted)>> \o InsertByTotal_before(item, Tail(sorted))
    ELSE <<item>> \o sorted

(* sorted(items, key=total_mentions, reverse=True): descending, entries    *)
(* with equal totals in their order in items                               *)
RECURSIVE InsertByTotal(_, _)
InsertByTotal(item, sorted) ==
    IF sorted = <<>> THEN <<item>>
    ELSE IF Head(sorted)[2].total_mentions >= item[2].total_mentions
    THEN <<Head(sorted)>> \o InsertByTotal(item, Tail(sorted))
    ELSE <<item>> \o sorted

RECURSIVE SortByTotal(_, _)
SortByTotal(items, sorted) ==
    IF items = <<>> THEN sorted
    ELSE SortByTotal(Tail(items), InsertByTotal(Head(items), sorted))

BrandLines(stats) ==
    IF stats = <<>> THEN << <<"  No mentions found.">> >>
    ELSE Concat([i \in DOMAIN stats |->
            LET item == SortByTotal(stats, <<>>)[i]
            IN  << <<"  ">> \o item[1] \o <<":">>,
                   <<"    Total Mentions: ">> \o str_int(item[2].total_mentions),
                   <<"    Responses Mentioned In: ">>
                       \o str_int(item[2].responses_mentioned_in) >>])

SummaryLines(summary) ==
    << <<"SUMMARY">>,
       Rule("-"),
       <<"Total Responses Analyzed: ">> \o str_int(summary.total_responses),
       <<"Responses with Your Brands: ">>
           \o str_int(summary.responses_with_your_brands)
           \o <<" (">> \o str_rate(summary.your_brand_presence_rate) \o <<"%)">>,
       <<"Responses with Competitors: ">>
           \o str_int(summary.responses_with_competitors)
           \o <<" (">> \o str_rate(summary.competitor_presence_rate) \o <<"%)">>,
       <<"Responses with Both: ">> \o str_int(summary.responses_with_both),
       <<"Responses with Neither: ">> \o str_int(summary.responses_with_neither),
       <<"Total Your Brand Mentions: ">> \o str_int(summary.total_your_brand_mentions),
       <<"Total Competitor Mentions: ">> \o str_int(summary.total_competitor_mentions),
       <<>> >>

NamesOrNone(names) ==
    IF names # <<>> THEN join(<<",", " ">>, names) ELSE <<"N","o","n","e">>

DetailLines(response_analyses) ==
    Concat([i \in DOMAIN response_analyses |->
        LET analysis == response_analyses[i]
        IN  << <<>>,
               <<"Response ">> \o str_int(i) \o <<":">>,
               <<"  Question: ">> \o analysis.question,
               <<"  Your Brands: ">> \o NamesOrNone(analysis.your_brands_mentioned),
               <<"  Competitors: ">>
                   \o NamesOrNone(analysis.competitor_brands_mentioned),
               <<"  Mentions: Your=">> \o str_int(analysis.your_brand_count)
                   \o <<", Competitors=">> \o str_int(analysis.competitor_count) >>])

TextFile(lines) == [json |-> FALSE, lines |-> lines]

(* _save_text_report *)
save_text_report(results, output_path) ==
    << <<output_path,
         TextFile(
             << Rule("="), <<"BRAND PRESENCE AUDIT REPORT">>, Rule("="), <<>>,
                <<"Audit Date: ">> \o results.audit_timestamp,
                <<"Source File: ">> \o results.source_file,
                <<>> >>
             \o SummaryLines(results.summary)
             \o << <<"YOUR BRANDS">>, Rule("-") >>
             \o BrandLines(results.brand_statistics.your_brands)
             \o << <<>>, <<"COMPETITOR BRANDS">>, Rule("-") >>
             \o BrandLines(results.brand_statistics.competitors)
             \o << <<>>, <<"DETAILED RESPONSE ANALYSIS">>, Rule("-") >>
             \o DetailLines(results.response_analyses))>> >>

(* save_audit_report: the files it opens for writing, in order, with what  *)
(* it writes, or the ValueError of an unknown format                       *)
save_audit_report(results, output_path, format) ==
    IF format = "json"
    THEN [raises |-> FALSE, files |-> << <<output_path, JsonReport(results)>> >>]
    ELSE IF format = "csv"
    THEN [raises |-> FALSE, files |-> save_csv_report(results, output_path)]
    ELSE IF format = "txt"
    THEN [raises |-> FALSE, files |-> save_text_report(results, output_path)]
    ELSE [raises |-> TRUE, files |-> <<>>]

(* the lines main prints *)
ConsoleLines(summary) ==
    << <<>>, Rule("="), <<"AUDIT SUMMARY">>, Rule("="),
       <<"Total Responses: ">> \o str_int(summary.total_responses),
       <<"Your Brand Presence: ">> \o str_int(summary.responses_with_your_brands)
           \o <<"/">> \o str_int(summary.total_responses)
           \o <<" (">> \o str_rate(summary.your_brand_presence_rate) \o <<"%)">>,
       <<"Competitor Presence: ">> \o str_int(summary.responses_with_competitors)
           \o <<"/">> \o str_int(summary.total_responses)
           \o <<" (">> \o str_rate(summary.competitor_presence_rate) \o <<"%)">>,
       <<"Total Your Brand Mentions: ">> \o str_int(summary.total_your_brand_mentions),
       <<"Total Competitor Mentions: ">> \o str_int(summary.total_competitor_mentions),
       Rule("=") >>

----------------------------------------------------------------------------
(* The inputs of the runs *)

Str_Acme == <<"A","c","m","e">>

Str_Globex == <<"G","l","o","b","e","x">>

Str_best_widget == <<"b","e","s","t"," ","w","i","d","g","e","t">>

Str_Acme_response ==
    <<"A","c","m","e"," ","w","i","d","g","e","t","s"," ","b","e","a","t"," ",
      "G","l","o","b","e","x"," ","a","n","d"," ","A","c","m","e"," ",
      "a","g","a","i","n">>

Str_Cola == <<"C","o","l","a">>

Str_Cola_text ==
    <<"I"," ","l","i","k","e"," ","C","o","l","a","-","C","o","l","a"," ",
      "p","r","o","d","u","c","t","s">>

Str_Colaaaa == <<"C","o","l","a","a","a","a">>

Str_Coke == <<"C","o","k","e">>

Str_Cokezilla == <<"C","o","k","e","z","i","l","l","a">>

Str_Nike == <<"N","i","k","e">>

Str_Nike_text ==
    <<"I"," ","l","o","v","e"," ","N","I","K","E"," ","s","h","o","e","s"," ",
      "a","n","d"," ","n","i","k","e"," ","s","o","c","k","s">>

Str_cpp == <<"c","+","+">>

Str_cpp_text == <<"I"," ","u","s","e"," ","c","+","+"," ","d","a","i","l","y">>

Str_a_dot_b == <<"a",".","b">>

Str_a_dot_b_text == <<"x"," ","a",".","b"," ","a","x","b"," ","a",".","b","c">>

MaxTextLen == 3

MaxBrandLen == 2

MaxResponses == 3

MaxClock == 1

SeqsUpTo(S, n) == UNION {[1..k -> S] : k \in 0..n}

TextAlphabet == {"a", "A", "B", "-", " ", "_", "I_DOT"}

BrandAlphabet == {"a", "B", "I_DOT"}

MatchTexts ==
    SeqsUpTo(TextAlphabet, MaxTextLen)
    \cup {Str_Cola_text, Str_Colaaaa, Str_Cokezilla, Str_Nike_text,
          Str_cpp_text, Str_a_dot_b_text}

MatchBrands ==
    (SeqsUpTo(BrandAlphabet, MaxBrandLen) \ {<<>>})
    \cup {Str_Cola, Str_Coke, Str_Nike, Str_cpp, Str_a_dot_b,
          <<"a", "-">>, <<"-", "a">>, <<"-">>}

ResponsesPath == <<"rufus_responses", ".json">>

AcmeRecord ==
    [question |-> Str_best_widget, response |-> Str_Acme_response,
     timestamp |-> <<"2024-01-01T00:00:00">>]

AuditRecords ==
    { [products |-> <<>>],
      [question |-> <<"a">>],
      [response |-> <<"B", " ", "a">>],
      [question |-> <<>>, response |-> <<"a", " ", "A">>],
      [question |-> <<"q">>, response |-> <<"b">>, timestamp |-> <<"t">>],
      [question |-> <<"c">>, response |-> <<"a", "b">>],
      [question |-> <<"a">>, response |-> <<"b">>] }

AuditBrandConfigs ==
    { <<<<<<"a">>>>, <<<<"B">>>>>>,
      <<<<<<"a">>>>, <<>>>>,
      <<<<>>, <<<<"B">>, <<"z">>>>>>,
      <<<<<<"a">>, <<"B">>>>, <<<<"c">>>>>>,
      <<<<<<"a">>>>, <<<<"A">>, <<"b">>>>>>,
      <<<<<<" ", "A">>, <<"a">>>>, <<<<"q">>>>>>,
      <<<<<<"a", "\n", "\n", "b">>>>, <<<<"q">>>>>> }

AuditInputs ==
    (AuditBrandConfigs \X SeqsUpTo(AuditRecords, MaxResponses))
    \cup {<<<<<<Str_Acme>>, <<Str_Globex>>>>, <<AcmeRecord>>>>}

JsonFile(data) == [json |-> TRUE, data |-> data]

(* An option that is not on the command line.  main only tests the truth  *)
(* of args.brands_file, args.your_brands, args.competitor_brands and       *)
(* args.output, and None, "" and [] are all false.                         *)
NotGiven == <<>>

(* no second invocation *)
NoPeer == "NoPeer"

(* the capture component does not run *)
NoCapture ==
    /\ questions = <<>>
    /\ question_index = 0
    /\ question_results = <<>>
    /\ self_results = <<>>
    /\ waited = 0
    /\ asked = <<>>
    /\ outcomes = <<>>
    /\ polls = 0

NoArgs ==
    [responses_file |-> ResponsesPath, brands_file |-> NotGiven,
     your_brands |-> NotGiven, competitor_brands |-> NotGiven,
     output |-> NotGiven, format |-> "json"]

BrandsPath == <<"brands", ".json">>

FormatChoices == {"json", "csv", "txt", "all"}

FormatInputs == FormatChoices \cup {"xml"}

(* <<--brands-file, --your-brands, --competitor-brands>> *)
BrandOptionInputs ==
    { <<NotGiven, NotGiven, NotGiven>>,
      <<NotGiven, <<<<"a">>>>, NotGiven>>,
      <<NotGiven, NotGiven, <<<<"B">>>>>>,
      <<NotGiven, <<<<"a">>>>, <<<<"B">>>>>>,
      <<NotGiven, <<Str_Acme>>, <<Str_Globex>>>>,
      <<NotGiven, <<<<"q">>, <<"b">>, <<"a">>>>, <<<<"z">>>>>>,
      <<BrandsPath, NotGiven, NotGiven>>,
      <<BrandsPath, <<<<"z">>>>, <<<<"q">>>>>> }

NotJson == [json |-> FALSE, data |-> <<>>]

(* a JSON document that is an array: json.load returns a list *)
JsonArrayFile == [json |-> TRUE, data |-> <<>>, array |-> TRUE]

(* json.load returned a dict *)
IsDict(file) == "array" \notin DOMAIN file

(* a file open(path, 'r') fails on *)
Unreadable == [json |-> FALSE, data |-> <<>>, unreadable |-> TRUE]

IsReadable(file) == "unreadable" \notin DOMAIN file

(* the file systems with and without a brands file *)
BrandFileInputs ==
    { [p \in {} |-> NotJson],
      BrandsPath :> NotJson,
      BrandsPath :> JsonFile([your_brands |-> <<<<"a">>>>,
                              competitor_brands |-> <<<<"B">>>>]),
      BrandsPath :> JsonFile([your_brands |-> <<>>, competitor_brands |-> <<>>]),
      BrandsPath :> JsonFile([brands |-> <<<<"a">>>>]),
      BrandsPath :> JsonArrayFile,
      BrandsPath :> JsonFile([your_brands |-> <<<<"a">>>>]) }

(* a response with twelve mentions of "a" *)
ManyRecord ==
    [question |-> <<"q">>, response |-> join(<<" ">>, [i \in 1..12 |-> <<"a">>])]

MainRecords ==
    { [response |-> <<"B", " ", "a">>],
      [question |-> <<"q">>, response |-> <<"b">>, timestamp |-> <<"t">>] }

MainCorpora ==
    {<<>>, <<AcmeRecord>>}
    \cup {<<ManyRecord>> \o rest : rest \in SeqsUpTo(MainRecords, MaxResponses - 2)}

(* the file systems with and without a responses file *)
ResponseFileInputs ==
    { [p \in {} |-> NotJson], ResponsesPath :> NotJson, ResponsesPath :> Unreadable,
      ResponsesPath :> JsonArrayFile,
      ResponsesPath :> JsonFile([products |-> <<>>]) }
    \cup {ResponsesPath :> JsonFile([results |-> corpus]) : corpus \in MainCorpora}

(* <<--output, the paths that cannot be opened for writing>> *)
OutputInputs ==
    { <<NotGiven, {}>>,
      <<<<"rufus_responses">>, {}>>,
      <<<<"out">>, {}>>,
      <<<<"out">>, {<<"out", ".json">>}>>,
      <<<<"out">>, {<<"out", ".brands.csv">>}>>,
      <<<<"out">>, {<<"out", ".txt">>}>>,
      <<<<"out", ".v1">>, {}>>,
      <<<<"reports", "/">>, {}>> }

----------------------------------------------------------------------------
(* The steps *)

(* auditor = BrandAuditor(your_brands, competitor_brands) *)
InitAuditor ==
    /\ pc = "init_auditor"
    /\ UNCHANGED <<peer, captureVars>>
    /\ auditor' = BrandAuditor_init(your_brands, competitor_brands)
    /\ pc' = "audit"
    /\ UNCHANGED <<argv, fs, clock, your_brands, competitor_brands, text, mentions,
                   audit_results, output_file, formats, unwritable, opened,
                   stdout, error, exit_code>>

(* auditor.find_brand_mentions(text) *)
FindBrandMentions ==
    /\ pc = "audit"
    /\ UNCHANGED <<peer, captureVars>>
    /\ mentions' = find_brand_mentions(auditor, text)
    /\ pc' = "found"
    /\ UNCHANGED <<argv, fs, clock, your_brands, competitor_brands, auditor, text,
                   audit_results, output_file, formats, unwritable, opened,
                   stdout, error, exit_code>>

(* the exception is recorded and the process ends with status 0 *)
Raise_zero(exception) ==
    /\ error' = exception
    /\ exit_code' = 0
    /\ pc' = "exit"

(* An exception nothing catches ends the process with status 1. *)
Raise(exception) ==
    /\ error' = exception
    /\ exit_code' = 1
    /\ pc' = "exit"

(* audit_results = auditor.audit_responses(args.responses_file) *)
AuditResponses ==
    /\ pc = "audit"
    /\ UNCHANGED <<peer, captureVars>>
    /\ opened' = Append(opened, <<argv.responses_file, "r">>)
    /\ IF argv.responses_file \notin DOMAIN fs
       THEN Raise("FileNotFoundError") /\ UNCHANGED audit_results
       ELSE IF ~IsReadable(fs[argv.responses_file])
       THEN Raise("PermissionError") /\ UNCHANGED audit_results
       ELSE IF ~fs[argv.responses_file].json
       THEN Raise("JSONDecodeError") /\ UNCHANGED audit_results
       ELSE IF ~IsDict(fs[argv.responses_file])
       THEN Raise("AttributeError") /\ UNCHANGED audit_results
       ELSE /\ audit_results' =
                  AuditOf(auditor, Get(fs[argv.responses_file].data, "results", <<>>),
                          argv.responses_file, clock)
            /\ pc' = "determine_output"
            /\ UNCHANGED <<error, exit_code>>
    /\ UNCHANGED <<argv, fs, clock, your_brands, competitor_brands, auditor, text,
                   mentions, output_file, formats, unwritable, stdout>>

(* parser.error(message): the usage and the message, exit status 2 *)
ParserError(message) ==
    /\ error' = message
    /\ exit_code' = 2
    /\ pc' = "exit"

(* args = parser.parse_args(): --format takes one of the choices *)
ParseArgs ==
    /\ pc = "parse_args"
    /\ UNCHANGED <<peer, captureVars>>
    /\ IF argv.format \notin FormatChoices
       THEN ParserError("argument --format: invalid choice")
       ELSE pc' = "load_brands" /\ UNCHANGED <<error, exit_code>>
    /\ UNCHANGED <<argv, fs, clock, your_brands, competitor_brands, auditor, text,
                   mentions, audit_results, output_file, formats, unwritable,
                   opened, stdout>>

(* the brand lists are taken whatever they hold *)
CheckBrands_unchecked(yours, competitors) ==
    /\ your_brands' = yours
    /\ competitor_brands' = competitors
    /\ pc' = "init_auditor"
    /\ UNCHANGED <<error, exit_code>>

(* main with its two lists: "if not your_brands and not competitor_brands" *)
CheckBrands(yours, competitors) ==
    /\ your_brands' = yours
    /\ competitor_brands' = competitors
    /\ IF yours = <<>> /\ competitors = <<>>
       THEN ParserError("Must provide at least one brand to track")
       ELSE pc' = "init_auditor" /\ UNCHANGED <<error, exit_code>>

(* "# Load brands": load_brands_from_file, or the two options, or the      *)
(* usage error; then the test of the two lists                             *)
LoadBrands ==
    /\ pc = "load_brands"
    /\ UNCHANGED <<peer, captureVars>>
    /\ IF argv.brands_file # NotGiven
       THEN /\ opened' = Append(opened, <<argv.brands_file, "r">>)
            /\ IF argv.brands_file \notin DOMAIN fs
               THEN /\ Raise("FileNotFoundError")
                    /\ UNCHANGED <<your_brands, competitor_brands>>
               ELSE IF ~fs[argv.brands_file].json
               THEN /\ Raise("JSONDecodeError")
                    /\ UNCHANGED <<your_brands, competitor_brands>>
               ELSE IF ~IsDict(fs[argv.brands_file])
               THEN /\ Raise("AttributeError")
                    /\ UNCHANGED <<your_brands, competitor_brands>>
               ELSE CheckBrands(
                        Get(fs[argv.brands_file].data, "your_brands", <<>>),
                        Get(fs[argv.brands_file].data, "competitor_brands", <<>>))
       ELSE /\ UNCHANGED opened
            /\ IF argv.your_brands # NotGiven /\ argv.competitor_brands # NotGiven
               THEN CheckBrands(argv.your_brands, argv.competitor_brands)
               ELSE /\ ParserError("Must provide either --brands-file or both --your-brands and --competitor-brands")
                    /\ UNCHANGED <<your_brands, competitor_brands>>
    /\ UNCHANGED <<argv, fs, clock, auditor, text, mentions, audit_results,
                   output_file, formats, unwritable, stdout>>

(* "# Determine output file" and the list formats *)
DetermineOutput ==
    /\ pc = "determine_output"
    /\ UNCHANGED <<peer, captureVars>>
    /\ output_file' = IF argv.output # NotGiven THEN argv.output
                      ELSE <<"brand_audit_">> \o strftime(clock)
    /\ formats' = IF argv.format = "all" THEN <<"json", "csv", "txt">>
                  ELSE <<argv.format>>
    /\ pc' = "save"
    /\ UNCHANGED <<argv, fs, clock, your_brands, competitor_brands, auditor, text,
                   mentions, audit_results, unwritable, opened, stdout, error,
                   exit_code>>

(* the writes with a cleanup: the first path that cannot be opened ends    *)
(* it and the files the run has written are removed                        *)
RECURSIVE WriteAll_cleanup(_, _)
WriteAll_cleanup(files, done) ==
    IF files = <<>> THEN done
    ELSE IF Head(files)[1] \in unwritable
    THEN [fs |-> [p \in {q \in DOMAIN done.fs :
                            \A i \in DOMAIN done.opened : done.opened[i] # <<q, "w">>}
                    |-> done.fs[p]],
          opened |-> Append(done.opened, <<Head(files)[1], "w">>),
          failed |-> TRUE]
    ELSE WriteAll_cleanup(Tail(files),
                  [fs |-> [p \in DOMAIN done.fs \cup {Head(files)[1]} |->
                              IF p = Head(files)[1] THEN Head(files)[2]
                              ELSE done.fs[p]],
                   opened |-> Append(done.opened, <<Head(files)[1], "w">>),
                   failed |-> FALSE])

(* open(path, 'w') and the writes, file after file; the first path that    *)
(* cannot be opened ends it                                                *)
RECURSIVE WriteAll(_, _)
WriteAll(files, done) ==
    IF files = <<>> THEN done
    ELSE IF Head(files)[1] \in unwritable
    THEN [fs |-> done.fs,
          opened |-> Append(done.opened, <<Head(files)[1], "w">>),
          failed |-> TRUE]
    ELSE WriteAll(Tail(files),
                  [fs |-> [p \in DOMAIN done.fs \cup {Head(files)[1]} |->
                              IF p = Head(files)[1] THEN Head(files)[2]
                              ELSE done.fs[p]],
                   opened |-> Append(done.opened, <<Head(files)[1], "w">>),
                   failed |-> FALSE])

(* one round of "for fmt in formats": save_audit_report of                 *)
(* f"{output_file}.{fmt}"                                                  *)
SaveReport ==
    /\ pc = "save"
    /\ UNCHANGED <<peer, captureVars>>
    /\ formats # <<>>
    /\ \E saved \in {save_audit_report(audit_results,
                                       output_file \o <<"." \o Head(formats)>>,
                                       Head(formats))} :
          IF saved.raises
          THEN Raise("ValueError") /\ UNCHANGED <<fs, opened, formats>>
          ELSE \E done \in {WriteAll(saved.files,
                                     [fs |-> fs, opened |-> opened, failed |-> FALSE])} :
                  /\ fs' = done.fs
                  /\ opened' = done.opened
                  /\ IF done.failed
                     THEN Raise("PermissionError") /\ UNCHANGED formats
                     ELSE /\ formats' = Tail(formats)
                          /\ UNCHANGED <<pc, error, exit_code>>
    /\ UNCHANGED <<argv, clock, your_brands, competitor_brands, auditor, text,
                   mentions, audit_results, output_file, unwritable, stdout>>

(* the summary is printed whatever is left to write *)
PrintSummary_early ==
    /\ pc = "save"
    /\ UNCHANGED <<peer, captureVars>>
    /\ stdout' = stdout \o ConsoleLines(audit_results.summary)
    /\ exit_code' = 0
    /\ pc' = "exit"
    /\ UNCHANGED <<argv, fs, clock, your_brands, competitor_brands, auditor, text,
                   mentions, audit_results, output_file, formats, unwritable,
                   opened, error>>

(* "# Print summary to console" and the end of main *)
PrintSummary ==
    /\ pc = "save"
    /\ UNCHANGED <<peer, captureVars>>
    /\ formats = <<>>
    /\ stdout' = stdout \o ConsoleLines(audit_results.summary)
    /\ exit_code' = 0
    /\ pc' = "exit"
    /\ UNCHANGED <<argv, fs, clock, your_brands, competitor_brands, auditor, text,
                   mentions, audit_results, output_file, formats, unwritable,
                   opened, error>>

(* a second passes *)
Tick ==
    /\ pc # "exit"
    /\ UNCHANGED <<peer, captureVars>>
    /\ clock < MaxClock
    /\ clock' = clock + 1
    /\ UNCHANGED <<pc, argv, fs, your_brands, competitor_brands, auditor, text,
                   mentions, audit_results, output_file, formats, unwritable,
                   opened, stdout, error, exit_code>>

----------------------------------------------------------------------------
(* find_brand_mentions on one brand and one text *)

InitMatch ==
    /\ pc = "init_auditor"
    /\ peer = NoPeer
    /\ NoCapture
    /\ argv = NoArgs
    /\ fs = <<>>
    /\ clock = 0
    /\ \E brand \in MatchBrands :
          /\ your_brands = <<brand>>
          /\ competitor_brands = <<>>
    /\ auditor = None
    /\ text \in MatchTexts
    /\ mentions = None
    /\ audit_results = None
    /\ output_file = None
    /\ formats = <<>>
    /\ unwritable = {}
    /\ opened = <<>>
    /\ stdout = <<>>
    /\ error = None
    /\ exit_code = None

NextMatch == InitAuditor \/ FindBrandMentions

SpecMatch == InitMatch /\ [][NextMatch]_vars

----------------------------------------------------------------------------
(* audit_responses on one brand configuration and one file of responses *)

InitAudit ==
    /\ pc = "init_auditor"
    /\ peer = NoPeer
    /\ NoCapture
    /\ argv = NoArgs
    /\ clock = 0
    /\ \E input \in AuditInputs :
          /\ your_brands = input[1][1]
          /\ competitor_brands = input[1][2]
          /\ fs = (ResponsesPath :> JsonFile([results |-> input[2]]))
    /\ auditor = None
    /\ text = None
    /\ mentions = None
    /\ audit_results = None
    /\ output_file = None
    /\ formats = <<>>
    /\ unwritable = {}
    /\ opened = <<>>
    /\ stdout = <<>>
    /\ error = None
    /\ exit_code = None

NextAudit == InitAuditor \/ AuditResponses

SpecAudit == InitAudit /\ [][NextAudit]_vars

----------------------------------------------------------------------------
(* main() on one command line and one file system *)

Init ==
    /\ pc = "parse_args"
    /\ peer = NoPeer
    /\ NoCapture
    /\ \E options \in BrandOptionInputs, out \in OutputInputs, format \in FormatInputs :
          /\ argv = [responses_file |-> ResponsesPath, brands_file |-> options[1],
                     your_brands |-> options[2], competitor_brands |-> options[3],
                     output |-> out[1], format |-> format]
          /\ unwritable = out[2]
          /\ \E brands \in BrandFileInputs, responses \in ResponseFileInputs :
                /\ options[1] = NotGiven => DOMAIN brands = {}
                /\ fs = brands @@ responses
    /\ clock = 0
    /\ your_brands = <<>>
    /\ competitor_brands = <<>>
    /\ auditor = None
    /\ text = None
    /\ mentions = None
    /\ audit_results = None
    /\ output_file = None
    /\ formats = <<>>
    /\ opened = <<>>
    /\ stdout = <<>>
    /\ error = None
    /\ exit_code = None

Next ==
    \/ ParseArgs
    \/ LoadBrands
    \/ InitAuditor
    \/ AuditResponses
    \/ DetermineOutput
    \/ SaveReport
    \/ PrintSummary
    \/ Tick

Spec == Init /\ [][Next]_vars

----------------------------------------------------------------------------
(* Two invocations of main() in two processes, on one file system and one  *)
(* clock.  One of them runs; the other is suspended, with its locals and   *)
(* its output in peer; the scheduler may switch between them at any step.  *)

OtherPath == <<"other_responses", ".json">>

(* the locals and the outcome of the running invocation *)
Registers ==
    [pc |-> pc, argv |-> argv, your_brands |-> your_brands,
     competitor_brands |-> competitor_brands, auditor |-> auditor,
     audit_results |-> audit_results, output_file |-> output_file,
     formats |-> formats, opened |-> opened, stdout |-> stdout,
     error |-> error, exit_code |-> exit_code]

(* an invocation that has not started *)
Started(args) ==
    [pc |-> "parse_args", argv |-> args, your_brands |-> <<>>,
     competitor_brands |-> <<>>, auditor |-> None, audit_results |-> None,
     output_file |-> None, formats |-> <<>>, opened |-> <<>>, stdout |-> <<>>,
     error |-> None, exit_code |-> None]

(* the scheduler suspends the running invocation and resumes the other *)
Switch ==
    /\ peer.pc # "exit"
    /\ peer' = Registers
    /\ pc' = peer.pc
    /\ argv' = peer.argv
    /\ your_brands' = peer.your_brands
    /\ competitor_brands' = peer.competitor_brands
    /\ auditor' = peer.auditor
    /\ audit_results' = peer.audit_results
    /\ output_file' = peer.output_file
    /\ formats' = peer.formats
    /\ opened' = peer.opened
    /\ stdout' = peer.stdout
    /\ error' = peer.error
    /\ exit_code' = peer.exit_code
    /\ UNCHANGED <<fs, clock, text, mentions, unwritable, captureVars>>

(* <<--output of the first, the responses file and --output of the second, *)
(* --format of both>>                                                      *)
ParallelInputs ==
    {NotGiven, <<"out">>} \X {ResponsesPath, OtherPath}
    \X {NotGiven, <<"out2">>} \X {"json", "all"}

(* <<the responses of the first file, the responses of the other>> *)
ParallelCorpora ==
    { <<<<ManyRecord>>, <<AcmeRecord>>>>,
      <<<<[response |-> <<"B", " ", "a">>]>>, <<>>>> }

ParallelArgs(responses_file, output, format) ==
    [responses_file |-> responses_file, brands_file |-> NotGiven,
     your_brands |-> <<<<"a">>>>, competitor_brands |-> <<<<"B">>>>,
     output |-> output, format |-> format]

InitParallel ==
    /\ pc = "parse_args"
    /\ NoCapture
    /\ \E input \in ParallelInputs :
          /\ argv = ParallelArgs(ResponsesPath, input[1], input[4])
          /\ peer = Started(ParallelArgs(input[2], input[3], input[4]))
    /\ \E corpora \in ParallelCorpora :
          fs = (ResponsesPath :> JsonFile([results |-> corpora[1]]))
               @@ (OtherPath :> JsonFile([results |-> corpora[2]]))
    /\ clock = 0
    /\ your_brands = <<>>
    /\ competitor_brands = <<>>
    /\ auditor = None
    /\ text = None
    /\ mentions = None
    /\ audit_results = None
    /\ output_file = None
    /\ formats = <<>>
    /\ unwritable = {}
    /\ opened = <<>>
    /\ stdout = <<>>
    /\ error = None
    /\ exit_code = None

NextParallel ==
    \/ ParseArgs
    \/ LoadBrands
    \/ InitAuditor
    \/ AuditResponses
    \/ DetermineOutput
    \/ SaveReport
    \/ PrintSummary
    \/ Tick
    \/ Switch

SpecParallel == InitParallel /\ [][NextParallel]_vars

----------------------------------------------------------------------------
(* The capture component, src/amazon_rufus_automation.py: ask_questions,   *)
(* ask_question, _wait_for_response_complete and save_results of           *)
(* AmazonRufusAutomation, as main() calls them.  The browser is the        *)
(* environment: whether the text area appears, what the page shows at each *)
(* probe and whether the page source can be read are any of the outcomes.  *)

max_wait_time == 30

check_interval == 2

MaxQuestions == 2

(* more iterations than the polling loop can make *)
MaxPolls == 16

QuestionTexts == {<<"q">>, <<"c">>}

(* main() returns before it asks when the list is empty *)
QuestionLists == SeqsUpTo(QuestionTexts, MaxQuestions) \ {<<>>}

(* what a probe of the page finds: a loading indicator, product containers *)
(* without a loaded product, an exception, or none of them                 *)
PageShows == {"loading", "containers", "error", "complete"}

(* the variables of the audit that the capture component leaves alone *)
auditVars == <<your_brands, competitor_brands, auditor, text, mentions, audit_results, output_file, formats, unwritable, stdout, error, exit_code, peer>>

(* the dictionary ask_question builds; the page's raw_html is left out *)
ResultOf(question, now) ==
    [question |-> question, response |-> <<"a">>, products |-> <<>>,
     followup_questions |-> <<>>, timestamp |-> isoformat(now)]

(* the head of "for i, question in enumerate(questions, 1)": the call of   *)
(* ask_question for the next question, or "return results" and, in main,   *)
(* the call of save_results                                                *)
AskQuestions ==
    /\ pc = "ask_questions"
    /\ IF question_index <= Len(questions)
       THEN /\ asked' = Append(asked, questions[question_index])
            /\ pc' = "ask_question"
       ELSE /\ pc' = "save_results"
            /\ UNCHANGED asked
    /\ UNCHANGED <<questions, question_index, question_results, self_results,
                   waited, outcomes, polls>>
    /\ UNCHANGED <<argv, fs, clock, opened, auditVars>>

(* a question that fails ends the loop of ask_questions *)
ReturnNone_stop ==
    /\ outcomes' = Append(outcomes, FALSE)
    /\ question_index' = question_index + 1
    /\ pc' = "save_results"
    /\ UNCHANGED <<question_results, self_results>>

(* "except Exception: return None" of ask_question, and the rest of the    *)
(* loop body of ask_questions: "if result" is false, nothing is appended   *)
ReturnNone ==
    /\ outcomes' = Append(outcomes, FALSE)
    /\ question_index' = question_index + 1
    /\ pc' = "ask_questions"
    /\ UNCHANGED <<question_results, self_results>>

(* ask_question up to the call of _wait_for_response_complete: the text    *)
(* area is found and the question submitted, or the wait for the text area *)
(* raises TimeoutException.  (A TimeoutException of the wait for the       *)
(* conversation turn is caught and the method goes on.)                    *)
AskQuestion ==
    /\ pc = "ask_question"
    /\ \E textarea \in BOOLEAN :
          IF textarea
          THEN /\ pc' = "wait_for_response_complete"
               /\ waited' = 0
               /\ polls' = 0
               /\ UNCHANGED <<question_index, question_results, self_results, outcomes>>
          ELSE /\ ReturnNone
               /\ UNCHANGED <<waited, polls>>
    /\ UNCHANGED <<questions, asked>>
    /\ UNCHANGED <<argv, fs, clock, opened, auditVars>>

(* the iteration with an except clause that does not add to waited *)
AfterProbe_error(shows) ==
    IF shows = "complete"
    THEN pc' = "extract" /\ UNCHANGED waited
    ELSE IF shows = "error"
    THEN UNCHANGED <<pc, waited>>
    ELSE waited' = waited + check_interval /\ UNCHANGED pc

(* one iteration of "while waited < max_wait_time" after its probe of the  *)
(* page: "break", or time.sleep(check_interval) and waited +=              *)
(* check_interval in the two "continue" branches and in the except clause  *)
AfterProbe(shows) ==
    IF shows = "complete"
    THEN pc' = "extract" /\ UNCHANGED waited
    ELSE waited' = waited + check_interval /\ UNCHANGED pc

(* an iteration of the polling loop *)
Poll ==
    /\ pc = "wait_for_response_complete"
    /\ waited < max_wait_time
    /\ polls < MaxPolls
    /\ polls' = polls + 1
    /\ \E shows \in PageShows : AfterProbe(shows)
    /\ UNCHANGED <<questions, question_index, question_results, self_results,
                   asked, outcomes>>
    /\ UNCHANGED <<argv, fs, clock, opened, auditVars>>

(* the loop ends at its test *)
WaitOver ==
    /\ pc = "wait_for_response_complete"
    /\ waited >= max_wait_time
    /\ pc' = "extract"
    /\ UNCHANGED <<captureVars, argv, fs, clock, opened, auditVars>>

(* ask_question after the polling loop: the extractions, the result, its   *)
(* append to self.results and "return result", or an exception (of         *)
(* driver.page_source) and "return None"; then "if result:                 *)
(* results.append(result)" of ask_questions                                *)
Extract ==
    /\ pc = "extract"
    /\ \E page_source \in BOOLEAN :
          IF page_source
          THEN \E result \in {ResultOf(questions[question_index], clock)} :
                  /\ self_results' = Append(self_results, result)
                  /\ question_results' = Append(question_results, result)
                  /\ outcomes' = Append(outcomes, TRUE)
                  /\ question_index' = question_index + 1
                  /\ pc' = "ask_questions"
          ELSE ReturnNone
    /\ UNCHANGED <<questions, waited, asked, polls>>
    /\ UNCHANGED <<argv, fs, clock, opened, auditVars>>

(* output_dir / filename of save_results *)
FilePath(filename, now) ==
    <<"rufus_responses", "/">>
    \o (IF filename # NotGiven THEN filename
        ELSE <<"rufus_responses_">> \o strftime(now) \o <<".json">>)

(* the dictionary save_results dumps *)
OutputOf(captured, now) ==
    [timestamp |-> isoformat(now), total_questions |-> Len(captured),
     results |-> captured]

(* automation.save_results(args.output) *)
SaveResults ==
    /\ pc = "save_results"
    /\ \E filepath \in {FilePath(argv.output, clock)} :
          /\ fs' = [p \in DOMAIN fs \cup {filepath} |->
                       IF p = filepath THEN JsonFile(OutputOf(self_results, clock))
                       ELSE fs[p]]
          /\ opened' = Append(opened, <<filepath, "w">>)
    /\ pc' = "exit"
    /\ UNCHANGED <<captureVars, argv, clock, auditVars>>

InitCapture ==
    /\ pc = "ask_questions"
    /\ \E output \in {NotGiven, <<"capture", ".json">>} : argv = [output |-> output]
    /\ fs = [p \in {} |-> NotJson]
    /\ clock = 0
    /\ questions \in QuestionLists
    /\ question_index = 1
    /\ question_results = <<>>
    /\ self_results = <<>>
    /\ waited = 0
    /\ asked = <<>>
    /\ outcomes = <<>>
    /\ polls = 0
    /\ peer = NoPeer
    /\ your_brands = <<>>
    /\ competitor_brands = <<>>
    /\ auditor = None
    /\ text = None
    /\ mentions = None
    /\ audit_results = None
    /\ output_file = None
    /\ formats = <<>>
    /\ unwritable = {}
    /\ opened = <<>>
    /\ stdout = <<>>
    /\ error = None
    /\ exit_code = None

NextCapture ==
    \/ AskQuestions
    \/ AskQuestion
    \/ Poll
    \/ WaitOver
    \/ Extract
    \/ SaveResults
    \/ Tick

SpecCapture == InitCapture /\ [][NextCapture]_vars

(* time.sleep returns and the loop goes on: the polling loop takes its     *)
(* steps                                                                   *)
SpecCaptureLive ==
    InitCapture /\ [][NextCapture]_vars /\ WF_vars(Poll) /\ WF_vars(WaitOver)

----------------------------------------------------------------------------
(* Properties *)

IsAlnum(c) == c \in Range(LowerLetters) \cup Range(UpperLetters) \cup Digits \cup {"I_DOT"}

IsAlnumStr(s) == s # <<>> /\ \A i \in DOMAIN s : IsAlnum(s[i])

(* the number of mentions of all brands in a result of find_brand_mentions *)
MentionCount(found) == Sum([i \in DOMAIN found |-> Len(found[i][2])])

(* the number of mentions of one brand *)
CountOf(found, brand) ==
    IF DictHas(found, brand) THEN Len(DictGet(found, brand)) ELSE 0

OtherCase(c) ==
    IF c = "I_DOT" \/ IsUpper(c) THEN LowerChar(c)
    ELSE IF \E i \in DOMAIN LowerLetters : LowerLetters[i] = c
    THEN <<UpperLetters[CHOOSE i \in DOMAIN LowerLetters : LowerLetters[i] = c]>>
    ELSE <<c>>

(* the strings that differ from s in the case of one letter *)
CaseChanges(s) ==
    {SubSeq(s, 1, i - 1) \o OtherCase(s[i]) \o SubSeq(s, i + 1, Len(s)) : i \in DOMAIN s}

(* C4: the number of mentions found does not change when the case of a     *)
(* letter of the text or of the configured name changes; "Nike" has 2      *)
(* mentions in "I love NIKE shoes and nike socks".                         *)
C4_CaseInsensitive ==
    pc = "found" =>
        /\ \A t \in CaseChanges(text) :
              MentionCount(find_brand_mentions(auditor, t)) = MentionCount(mentions)
        /\ \A b \in CaseChanges(your_brands[1]) :
              MentionCount(find_brand_mentions(BrandAuditor_init(<<b>>, <<>>), text))
                  = MentionCount(mentions)
        /\ (your_brands = <<Str_Nike>> /\ text = Str_Nike_text)
              => MentionCount(mentions) = 2

(* C4 with the letters U+0130 and its lower-case form left out *)
C4_AsciiCaseInsensitive ==
    (pc = "found" /\ "I_DOT" \notin Range(text) \cup Range(your_brands[1])) =>
        C4_CaseInsensitive

(* the records of the responses file the audit read *)
Results == fs[argv.responses_file].data.results

Audited == pc = "determine_output"

Summary == audit_results.summary

Analyses == audit_results.response_analyses

(* the number of i in 1..n with P[i] *)
NumberOf(flags) == Cardinality({i \in DOMAIN flags : flags[i]})

AcmeRun ==
    /\ your_brands = <<Str_Acme>>
    /\ competitor_brands = <<Str_Globex>>
    /\ Results = <<AcmeRecord>>

(* C2: own brands ["Acme"], competitors ["Globex"] and the one record      *)
(* "best widget" / "Acme widgets beat Globex and Acme again" give          *)
(* your_brand_count 2, competitor_count 1, both flags true and             *)
(* responses_with_both 1.                                                  *)
C2_EndToEnd ==
    (Audited /\ AcmeRun) =>
        /\ Len(Analyses) = 1
        /\ Analyses[1].your_brand_count = 2
        /\ Analyses[1].competitor_count = 1
        /\ Analyses[1].has_your_brands = TRUE
        /\ Analyses[1].has_competitors = TRUE
        /\ Summary.responses_with_both = 1

C2_Witness ==
    /\ Audited
    /\ AcmeRun
    /\ Analyses[1].your_brands_mentioned = <<lower(Str_Acme)>>
    /\ Analyses[1].competitor_brands_mentioned = <<lower(Str_Globex)>>

(* x100 is the fraction k * 100 / n rounded to two decimal places, in      *)
(* hundredths: no hundredth is nearer                                      *)
IsRounded(x100, k, n) ==
    LET d == x100 * n - k * 100 * 100
    IN  2 * (IF d < 0 THEN -d ELSE d) <= n

(* C5: with N > 0 responses each presence rate is (responses with at least *)
(* one mention of the group / N) x 100 rounded to 2 decimal places; with   *)
(* no response the rates are 0, nothing is raised and both totals are 0.   *)
C5_PresenceRate ==
    /\ Results = <<>> => error = None /\ pc # "exit"
    /\ Audited =>
        LET N  == Len(Results)
            ky == NumberOf([i \in DOMAIN Analyses |-> Analyses[i].your_brand_count >= 1])
            kc == NumberOf([i \in DOMAIN Analyses |-> Analyses[i].competitor_count >= 1])
        IN  IF N > 0
            THEN /\ IsRounded(Summary.your_brand_presence_rate.x100, ky, N)
                 /\ IsRounded(Summary.competitor_presence_rate.x100, kc, N)
            ELSE /\ Summary.your_brand_presence_rate.x100 = 0
                 /\ Summary.competitor_presence_rate.x100 = 0
                 /\ Summary.total_your_brand_mentions = 0
                 /\ Summary.total_competitor_mentions = 0
                 /\ error = None

C5_Witness ==
    /\ Audited
    /\ Len(Results) = 3
    /\ Summary.responses_with_your_brands = 2
    /\ Summary.your_brand_presence_rate.x100 = 6667
    /\ Summary.competitor_presence_rate.x100 = 3333

(* the mention count of a brand in the i-th response analysis *)
PerResponse(i, brand, own) ==
    LET d == IF own THEN Analyses[i].your_brand_mentions
             ELSE Analyses[i].competitor_mentions
    IN  IF DictHas(d, brand) THEN DictGet(d, brand) ELSE 0

StatsOk(stats, own) ==
    \A e \in DOMAIN stats :
        LET brand == stats[e][1]
            st    == stats[e][2]
            per   == [i \in DOMAIN Analyses |-> PerResponse(i, brand, own)]
        IN  /\ st.total_mentions = Sum(per)
            /\ st.responses_mentioned_in = NumberOf([i \in DOMAIN per |-> per[i] >= 1])
            /\ 1 <= st.responses_mentioned_in
            /\ st.responses_mentioned_in <= st.total_mentions
            /\ st.responses_mentioned_in <= Summary.total_responses

(* C6: for every brand of brand_statistics, total_mentions is the sum of   *)
(* its per-response mention counts and responses_mentioned_in the number   *)
(* of responses that mention it, so 1 <= responses_mentioned_in <=         *)
(* total_mentions and responses_mentioned_in <= total_responses.           *)
C6_BrandTotals ==
    Audited =>
        /\ StatsOk(audit_results.brand_statistics.your_brands, TRUE)
        /\ StatsOk(audit_results.brand_statistics.competitors, FALSE)

C6_Witness ==
    /\ Audited
    /\ Len(Results) = 3
    /\ \E e \in DOMAIN audit_results.brand_statistics.your_brands :
          LET st == audit_results.brand_statistics.your_brands[e][2]
          IN  st.total_mentions = 3 /\ st.responses_mentioned_in = 2

(* the text analyze_response searches for one record *)
FullTextOf(r) ==
    (IF "question" \in DOMAIN r THEN r.question ELSE <<>>)
    \o <<"\n", "\n">>
    \o (IF "response" \in DOMAIN r THEN r.response ELSE <<>>)

(* the configured brand has a match somewhere in the corpus *)
MentionedSomewhere(brand) ==
    \E i \in DOMAIN Results :
        finditer(BrandPattern(brand), FullTextOf(Results[i]), 0) # <<>>

StatsBrands ==
    Range(DictKeys(audit_results.brand_statistics.your_brands))
    \cup Range(DictKeys(audit_results.brand_statistics.competitors))

(* C7: the brands of brand_statistics, own and competitor together, are    *)
(* the configured brands with a mention somewhere in the corpus; no entry  *)
(* has total_mentions = 0.                                                 *)
C7_OnlyMentionedBrands ==
    Audited =>
        /\ StatsBrands = {b \in Range(auditor.all_brands) : MentionedSomewhere(b)}
        /\ \A e \in DOMAIN audit_results.brand_statistics.your_brands :
              audit_results.brand_statistics.your_brands[e][2].total_mentions > 0
        /\ \A e \in DOMAIN audit_results.brand_statistics.competitors :
              audit_results.brand_statistics.competitors[e][2].total_mentions > 0

C7_Witness ==
    /\ Audited
    /\ auditor.competitor_brands = <<<<"b">>, <<"z">>>>
    /\ DictKeys(audit_results.brand_statistics.competitors) = <<<<"b">>>>
    /\ Len(Results) = 2

(* the record with the empty string for a missing question or response *)
WithEmptyStrings(r) ==
    [k \in DOMAIN r \cup {"question", "response"} |->
        IF k \in DOMAIN r THEN r[k] ELSE <<>>]

LacksField(r) == ~({"question", "response"} \subseteq DOMAIN r)

(* C9: records that lack question, response or both do not make the audit  *)
(* fail; each is analysed as the record with the empty string in the       *)
(* missing field, and response_analyses has one entry per record, in the   *)
(* order of the input.                                                     *)
C9_MissingFields ==
    /\ error = None
    /\ Audited =>
        /\ Len(Analyses) = Len(Results)
        /\ \A i \in DOMAIN Results :
              /\ Analyses[i] = analyze_response(auditor, WithEmptyStrings(Results[i]))
              /\ Analyses[i].question = WithEmptyStrings(Results[i]).question
              /\ Analyses[i].response_length = Len(WithEmptyStrings(Results[i]).response)

C9_Witness ==
    /\ Audited
    /\ Len(Results) = 3
    /\ DOMAIN Results[1] = {"products"}
    /\ DOMAIN Results[2] = {"response"}
    /\ DOMAIN Results[3] = {"question"}
    /\ Analyses[2].has_your_brands
    /\ Analyses[3].question = <<"a">>

(* int(s): the number a decimal numeral denotes, -1 for any other string *)
IsNumeral(s) == s # <<>> /\ \A i \in DOMAIN s : s[i] \in Digits

DigitValue(c) == (CHOOSE i \in DOMAIN DigitChars : DigitChars[i] = c) - 1

RECURSIVE DecimalValue(_)
DecimalValue(s) ==
    IF s = <<>> THEN 0
    ELSE DecimalValue(SubSeq(s, 1, Len(s) - 1)) * 10 + DigitValue(s[Len(s)])

int(s) == IF IsNumeral(s) THEN DecimalValue(s) ELSE -1

(* <<own total, competitor total>> of the report's summary *)
SummaryTotals ==
    <<Summary.total_your_brand_mentions, Summary.total_competitor_mentions>>

(* the totals read from the "summary" object of a JSON document *)
JsonTotals(doc) ==
    LET summary == DictGet(doc.members, "summary")
    IN  <<int(DictGet(summary.members, "total_your_brand_mentions").text),
          int(DictGet(summary.members, "total_competitor_mentions").text)>>

(* the value cell of the first row of a table with the given metric *)
ValueOfMetric(rows, metric) ==
    rows[CHOOSE i \in DOMAIN rows :
            /\ rows[i][1] = <<metric>>
            /\ \A j \in 1..(i - 1) : rows[j][1] # <<metric>>][2]

CsvTotals(rows) ==
    <<int(ValueOfMetric(rows, "Total Your Brand Mentions")),
      int(ValueOfMetric(rows, "Total Competitor Mentions"))>>

(* what follows the label on the first line that starts with it *)
AfterLabel(lines, label) ==
    Tail(lines[CHOOSE i \in DOMAIN lines :
                  /\ lines[i] # <<>> /\ lines[i][1] = label
                  /\ \A j \in 1..(i - 1) : lines[j] = <<>> \/ lines[j][1] # label])

TextTotals(lines) ==
    <<int(AfterLabel(lines, "Total Your Brand Mentions: ")),
      int(AfterLabel(lines, "Total Competitor Mentions: "))>>

IsJsonReport(p) == "doc" \in DOMAIN fs[p]

IsSummaryCsv(p) == "rows" \in DOMAIN fs[p] /\ p[Len(p)] = ".summary.csv"

IsTextReport(p) == "lines" \in DOMAIN fs[p]

(* C8: the own and competitor mention totals read back from the JSON       *)
(* output, from the CSV summary table and from the summary block of the    *)
(* text report of a run are the totals of the report's summary.            *)
C8_FormatEquivalence ==
    \A p \in DOMAIN fs :
        /\ IsJsonReport(p) => JsonTotals(fs[p].doc) = SummaryTotals
        /\ IsSummaryCsv(p) => CsvTotals(fs[p].rows) = SummaryTotals
        /\ IsTextReport(p) => TextTotals(fs[p].lines) = SummaryTotals

C8_Witness ==
    /\ pc = "exit"
    /\ exit_code = 0
    /\ argv.format = "all"
    /\ SummaryTotals = <<13, 1>>
    /\ IsJsonReport(output_file \o <<".json">>)
    /\ IsSummaryCsv(output_file \o <<".summary.csv">>)
    /\ IsTextReport(output_file \o <<".txt">>)
    /\ JsonTotals(fs[output_file \o <<".json">>].doc) = <<13, 1>>
    /\ CsvTotals(fs[output_file \o <<".summary.csv">>].rows) = <<13, 1>>
    /\ TextTotals(fs[output_file \o <<".txt">>].lines) = <<13, 1>>

UnsupportedFormat == argv.format \notin FormatChoices

(* neither the brands file nor both lists on the command line *)
NoBrandSource ==
    /\ argv.brands_file = NotGiven
    /\ argv.your_brands = NotGiven \/ argv.competitor_brands = NotGiven

(* the brands file loads and holds no brand *)
BothListsEmpty ==
    /\ argv.brands_file # NotGiven
    /\ argv.brands_file \in DOMAIN fs
    /\ fs[argv.brands_file].json
    /\ IsDict(fs[argv.brands_file])
    /\ Get(fs[argv.brands_file].data, "your_brands", <<>>) = <<>>
    /\ Get(fs[argv.brands_file].data, "competitor_brands", <<>>) = <<>>

ConfigurationError == UnsupportedFormat \/ NoBrandSource \/ BothListsEmpty

(* C10: a run with a configuration error (no brand source, both brand      *)
(* lists empty after loading, an unsupported --format) never gets past the *)
(* loading of the brands: it has a step to take until it has ended, it     *)
(* ends with a non-zero exit status, and it has not opened the responses   *)
(* file, opened a file for writing or printed a summary.                   *)
C10_ConfigurationErrors ==
    ConfigurationError =>
        /\ pc \in {"parse_args", "load_brands", "exit"}
        /\ pc # "exit" => ENABLED (ParseArgs \/ LoadBrands)
        /\ pc = "exit" => exit_code # 0
        /\ \A i \in DOMAIN opened :
              /\ opened[i] # <<argv.responses_file, "r">>
              /\ opened[i][2] # "w"
        /\ stdout = <<>>

C10_Witness ==
    /\ BothListsEmpty
    /\ ~UnsupportedFormat
    /\ ResponsesPath \in DOMAIN fs
    /\ pc = "exit"
    /\ exit_code = 2
    /\ opened = << <<BrandsPath, "r">> >>

(* the command line names a brands file and a brand list as well *)
BothBrandSources ==
    /\ argv.brands_file # NotGiven
    /\ argv.your_brands # NotGiven \/ argv.competitor_brands # NotGiven

(* C11: an invocation with both a brands file and explicit brand lists is  *)
(* rejected as a configuration error: it ends in the loading of the brands *)
(* with a non-zero exit status and takes its brands from neither.          *)
C11_ExactlyOneBrandSource ==
    BothBrandSources =>
        /\ pc \in {"parse_args", "load_brands", "exit"}
        /\ pc = "exit" => exit_code # 0
        /\ your_brands = <<>> /\ competitor_brands = <<>>

(* the responses file is a JSON object without the key "results" *)
LacksResults ==
    /\ argv.responses_file \in DOMAIN fs
    /\ fs[argv.responses_file].json
    /\ IsDict(fs[argv.responses_file])
    /\ "data" \in DOMAIN fs[argv.responses_file]
    /\ "results" \notin DOMAIN fs[argv.responses_file].data

(* some open() of the run was for writing *)
WroteSomething == \E i \in DOMAIN opened : opened[i][2] = "w"

(* C12: a responses file without the top-level "results" list makes the    *)
(* run abort with an input error: audit_responses returns no report, the   *)
(* run ends with a non-zero exit status and writes no report file.         *)
C12_MissingResultsAborts ==
    LacksResults =>
        /\ pc \notin {"determine_output", "save"}
        /\ pc = "exit" => exit_code # 0
        /\ ~WroteSomething

(* the responses file is missing, unreadable or not valid JSON *)
BadInputFile ==
    \/ argv.responses_file \notin DOMAIN fs
    \/ /\ argv.responses_file \in DOMAIN fs
       /\ "data" \in DOMAIN fs[argv.responses_file]
       /\ ~IsReadable(fs[argv.responses_file]) \/ ~fs[argv.responses_file].json

(* the responses file is a JSON object *)
GoodInputFile ==
    /\ argv.responses_file \in DOMAIN fs
    /\ "data" \in DOMAIN fs[argv.responses_file]
       => /\ IsReadable(fs[argv.responses_file])
          /\ fs[argv.responses_file].json
          /\ IsDict(fs[argv.responses_file])

(* the options name a supported format and a brand source with a brand *)
ValidConfiguration ==
    /\ ~ConfigurationError
    /\ argv.brands_file # NotGiven =>
          /\ argv.brands_file \in DOMAIN fs
          /\ fs[argv.brands_file].json
          /\ IsDict(fs[argv.brands_file])

(* a step of main *)
MainStep ==
    \/ ParseArgs \/ LoadBrands \/ InitAuditor \/ AuditResponses
    \/ DetermineOutput \/ SaveReport \/ PrintSummary

(* C13: with a responses file that is missing, unreadable or no valid JSON *)
(* the run ends with a non-zero exit status, opens no file for writing and *)
(* prints no summary; with a valid configuration, a readable JSON object   *)
(* as input and writable outputs the run goes on until it ends, with exit  *)
(* status 0.                                                               *)
C13_ExitStatus ==
    /\ BadInputFile =>
          /\ pc \notin {"determine_output", "save"}
          /\ pc = "exit" => exit_code # 0
          /\ ~WroteSomething
          /\ stdout = <<>>
    /\ (ValidConfiguration /\ GoodInputFile /\ unwritable = {}) =>
          /\ pc # "exit" => ENABLED MainStep
          /\ pc = "exit" => exit_code = 0 /\ error = None

C13_Witness ==
    /\ ValidConfiguration
    /\ BadInputFile
    /\ argv.responses_file \in DOMAIN fs
    /\ pc = "exit"
    /\ exit_code = 1
    /\ error = "JSONDecodeError"
    /\ opened = << <<argv.responses_file, "r">> >>

(* the files save_audit_report writes for one format of the run *)
FilesOfFormat(format) ==
    save_audit_report(audit_results, output_file \o <<"." \o format>>, format).files

(* the files of all the formats of the run, in the order of main's loop *)
FilesOfRun ==
    IF argv.format = "all"
    THEN FilesOfFormat("json") \o FilesOfFormat("csv") \o FilesOfFormat("txt")
    ELSE FilesOfFormat(argv.format)

(* main has reached its loop over formats *)
Saving == pc = "save" \/ (pc = "exit" /\ (formats # <<>> \/ stdout # <<>>))

(* the run has opened the path for writing, and the open succeeded *)
HasWritten(path) ==
    /\ path \notin unwritable
    /\ \E i \in DOMAIN opened : opened[i] = <<path, "w">>

(* C14: in a run with --format all, a destination that cannot be opened    *)
(* for writing ends the run with the exception and a non-zero exit status, *)
(* without a summary, and every report file written before it still holds  *)
(* what was written to it.                                                 *)
C14_SiblingsKept ==
    (argv.format = "all" /\ Saving) =>
        /\ \A k \in DOMAIN FilesOfRun :
              HasWritten(FilesOfRun[k][1]) =>
                  /\ FilesOfRun[k][1] \in DOMAIN fs
                  /\ fs[FilesOfRun[k][1]] = FilesOfRun[k][2]
        /\ (\E i \in DOMAIN opened : opened[i][2] = "w" /\ opened[i][1] \in unwritable) =>
              /\ pc = "exit"
              /\ error = "PermissionError"
              /\ exit_code # 0
              /\ stdout = <<>>

C14_Witness ==
    /\ argv.format = "all"
    /\ pc = "exit"
    /\ formats = <<"txt">>
    /\ error = "PermissionError"
    /\ opened[Len(opened)] = <<output_file \o <<".txt">>, "w">>
    /\ HasWritten(output_file \o <<".json">>)
    /\ HasWritten(output_file \o <<".detailed.csv">>)
    /\ fs[output_file \o <<".json">>] = JsonReport(audit_results)
    /\ Summary.total_your_brand_mentions = 13

(* C15: the formats of a run with --format all are written independently:  *)
(* when the run has ended, every file of the run whose destination can be  *)
(* opened for writing has been written, whatever happened to the others.   *)
C15_FormatsIndependent ==
    (argv.format = "all" /\ Saving /\ pc = "exit") =>
        \A k \in DOMAIN FilesOfRun :
            FilesOfRun[k][1] \notin unwritable =>
                /\ HasWritten(FilesOfRun[k][1])
                /\ fs[FilesOfRun[k][1]] = FilesOfRun[k][2]

(* C16: whatever the format (json, csv, txt, all), a run whose audit and   *)
(* report writes all succeed ends with the console summary printed once,   *)
(* and nothing is printed before every report file of the run has been     *)
(* written.                                                                *)
C16_SummaryAfterReports ==
    /\ (pc = "exit" /\ exit_code = 0) => stdout = ConsoleLines(Summary)
    /\ stdout # <<>> =>
          /\ pc = "exit"
          /\ stdout = ConsoleLines(Summary)
          /\ \A k \in DOMAIN FilesOfRun :
                /\ HasWritten(FilesOfRun[k][1])
                /\ fs[FilesOfRun[k][1]] = FilesOfRun[k][2]

C16_Witness ==
    /\ pc = "exit"
    /\ exit_code = 0
    /\ argv.format = "csv"
    /\ Len(FilesOfRun) = 3
    /\ Len(opened) = 4
    /\ Len(stdout) = 10
    /\ stdout[3] = <<"AUDIT SUMMARY">>
    /\ stdout[8] = <<"Total Your Brand Mentions: ", "1", "3">>

(* the paths the run has opened for writing, in order *)
WrittenPaths == [i \in DOMAIN SelectSeq(opened, LAMBDA o : o[2] = "w") |->
                    SelectSeq(opened, LAMBDA o : o[2] = "w")[i][1]]

IsPrefix(s, t) == Len(s) <= Len(t) /\ SubSeq(t, 1, Len(s)) = s

(* the paths are those of the output path with the given last parts *)
HaveSuffixes(paths, suffixes) ==
    /\ Len(paths) = Len(suffixes)
    /\ \A i \in DOMAIN paths :
          /\ IsPrefix(output_file, paths[i])
          /\ paths[i][Len(paths[i])] = suffixes[i]
          /\ paths[i] \in DOMAIN fs

(* C17: a successful run has written one file for json (.json), one for    *)
(* txt (.txt), three for csv (.summary.csv, .brands.csv, .detailed.csv),   *)
(* the five of them for all; the paths start with the output path and are  *)
(* pairwise distinct, and the run has made no other file.                  *)
C17_OutputArtifacts ==
    (pc = "exit" /\ exit_code = 0) =>
        /\ argv.format = "json" => HaveSuffixes(WrittenPaths, <<".json">>)
        /\ argv.format = "txt" => HaveSuffixes(WrittenPaths, <<".txt">>)
        /\ argv.format = "csv" =>
              HaveSuffixes(WrittenPaths, <<".summary.csv", ".brands.csv", ".detailed.csv">>)
        /\ argv.format = "all" =>
              HaveSuffixes(WrittenPaths,
                  <<".json", ".summary.csv", ".brands.csv", ".detailed.csv", ".txt">>)
        /\ Cardinality(Range(WrittenPaths)) = Len(WrittenPaths)
        /\ DOMAIN fs \ {BrandsPath, ResponsesPath} \subseteq Range(WrittenPaths)

C17_Witness ==
    /\ pc = "exit"
    /\ exit_code = 0
    /\ argv.format = "all"
    /\ argv.output = <<"out", ".v1">>
    /\ WrittenPaths = << <<"out", ".v1", ".json">>, <<"out", ".v1", ".summary.csv">>,
                         <<"out", ".v1", ".brands.csv">>, <<"out", ".v1", ".detailed.csv">>,
                         <<"out", ".v1", ".txt">> >>

(* C18: whatever the responses file, --output and --format, the run opens  *)
(* no file for writing at the path of the responses file, so that the file *)
(* holds after the run what it held before (the document json.load read).  *)
C18_InputNeverWritten ==
    /\ \A i \in DOMAIN opened : opened[i] # <<argv.responses_file, "w">>
    /\ (pc = "exit" /\ exit_code = 0) => "data" \in DOMAIN fs[argv.responses_file]

(* the invocation has ended with status 0 *)
Succeeded(run) == run.pc = "exit" /\ run.exit_code = 0

(* the JSON report at the invocation's output path is the invocation's *)
OwnReport(run) ==
    /\ run.output_file \o <<".json">> \in DOMAIN fs
    /\ fs[run.output_file \o <<".json">>] = JsonReport(run.audit_results)

(* C19: two invocations in parallel on different responses files do not    *)
(* interfere: when both have ended with status 0, the JSON report at each  *)
(* invocation's output path, the timestamp default included, is the report *)
(* of that invocation's own audit.                                         *)
C19_ParallelRuns ==
    (/\ Succeeded(Registers) /\ Succeeded(peer)
     /\ argv.responses_file # peer.argv.responses_file) =>
        OwnReport(Registers) /\ OwnReport(peer)

(* audit_responses has returned its report to the invocation *)
ReportReady(run) ==
    \/ run.pc \in {"determine_output", "save"}
    \/ run.pc = "exit" /\ (run.formats # <<>> \/ run.stdout # <<>>)

(* both invocations have audited the same file with the same brands *)
SameAuditTwice ==
    /\ ReportReady(Registers)
    /\ ReportReady(peer)
    /\ argv.responses_file = peer.argv.responses_file
    /\ your_brands = peer.your_brands
    /\ competitor_brands = peer.competitor_brands

(* C20: two audits of the same responses file with the same brands, at     *)
(* whatever times, give the same summary, the same brand_statistics and    *)
(* the same response_analyses; the reports differ in audit_timestamp at    *)
(* most.                                                                   *)
C20_Deterministic ==
    SameAuditTwice =>
        /\ audit_results.summary = peer.audit_results.summary
        /\ audit_results.brand_statistics = peer.audit_results.brand_statistics
        /\ audit_results.response_analyses = peer.audit_results.response_analyses
        /\ audit_results.source_file = peer.audit_results.source_file
        /\ DOMAIN audit_results = DOMAIN peer.audit_results

C20_Witness ==
    /\ SameAuditTwice
    /\ audit_results.audit_timestamp # peer.audit_results.audit_timestamp
    /\ audit_results.summary.total_your_brand_mentions = 12
    /\ Len(audit_results.response_analyses) = 1
    /\ audit_results.response_analyses[1].timestamp = <<>>

IsDetailCsv(p) == "rows" \in DOMAIN fs[p] /\ p[Len(p)] = ".detailed.csv"

IsBrandsCsv(p) == "rows" \in DOMAIN fs[p] /\ p[Len(p)] = ".brands.csv"

(* the literal text of a flag *)
TrueFalse(b) == IF b THEN <<"t","r","u","e">> ELSE <<"f","a","l","s","e">>

(* C21: in the detail table of the CSV output the cells "Has Your Brands"  *)
(* and "Has Competitors" of the row of every response are the text true or *)
(* false of the response's flags, and every row of the brand table carries *)
(* the group of its brand in the cell "Type".                              *)
C21_CsvFlagsAndGroups ==
    \A p \in DOMAIN fs :
        /\ IsDetailCsv(p) =>
              \A i \in DOMAIN Analyses :
                 /\ fs[p].rows[i + 1][8] = TrueFalse(Analyses[i].has_your_brands)
                 /\ fs[p].rows[i + 1][9] = TrueFalse(Analyses[i].has_competitors)
        /\ IsBrandsCsv(p) =>
              \A i \in 2..Len(fs[p].rows) :
                 fs[p].rows[i][2] \in {<<"Your Brand">>, <<"Competitor">>}

(* the index of the first line of a text file that is the given line *)
LineIndex(lines, line) ==
    CHOOSE i \in DOMAIN lines :
        lines[i] = line /\ \A j \in 1..(i - 1) : lines[j] # line

(* "  <brand>:", the heading of a brand's entry in a ranked list *)
IsBrandLine(line) == Len(line) >= 2 /\ line[1] = "  " /\ line[Len(line)] = ":"

(* the brands of a ranked list: the brand headings after the line `from`   *)
(* and before the line `to`, in their order in the file                    *)
BrandsListed(lines, from, to) ==
    LET section  == SubSeq(lines, LineIndex(lines, from) + 1, LineIndex(lines, to) - 1)
        headings == SelectSeq(section, LAMBDA line : IsBrandLine(line))
    IN  [i \in DOMAIN headings |-> SubSeq(headings[i], 2, Len(headings[i]) - 1)]

(* the position of a brand in the iteration order of a dictionary *)
KeyIndex(d, k) == CHOOSE i \in DOMAIN d : d[i][1] = k

(* listed holds every brand of stats, a larger total first, equal totals   *)
(* in the order of stats                                                   *)
RankedStable(listed, stats) ==
    /\ Len(listed) = Len(stats)
    /\ \A i \in DOMAIN listed : DictHas(stats, listed[i])
    /\ \A i \in DOMAIN listed : \A j \in DOMAIN listed :
          i < j =>
             \/ DictGet(stats, listed[i]).total_mentions
                   > DictGet(stats, listed[j]).total_mentions
             \/ /\ DictGet(stats, listed[i]).total_mentions
                      = DictGet(stats, listed[j]).total_mentions
                /\ KeyIndex(stats, listed[i]) < KeyIndex(stats, listed[j])

OwnListed(p) == BrandsListed(fs[p].lines, <<"YOUR BRANDS">>, <<"COMPETITOR BRANDS">>)

CompetitorsListed(p) ==
    BrandsListed(fs[p].lines, <<"COMPETITOR BRANDS">>, <<"DETAILED RESPONSE ANALYSIS">>)

(* C22: in every text report the list of own brands and the list of        *)
(* competitor brands hold the brands of brand_statistics by non-increasing *)
(* total_mentions, and brands with equal totals stand in the order in      *)
(* which brand_statistics iterates over them.                              *)
C22_RankedLists ==
    \A p \in DOMAIN fs :
        IsTextReport(p) =>
            /\ RankedStable(OwnListed(p), audit_results.brand_statistics.your_brands)
            /\ RankedStable(CompetitorsListed(p),
                            audit_results.brand_statistics.competitors)

C22_Witness ==
    /\ pc = "exit"
    /\ exit_code = 0
    /\ argv.format = "txt"
    /\ output_file = <<"out">>
    /\ IsTextReport(<<"out", ".txt">>)
    /\ DictKeys(audit_results.brand_statistics.your_brands)
          = <<<<"q">>, <<"a">>, <<"b">>>>
    /\ DictGet(audit_results.brand_statistics.your_brands, <<"q">>).total_mentions = 1
    /\ DictGet(audit_results.brand_statistics.your_brands, <<"b">>).total_mentions = 1
    /\ OwnListed(<<"out", ".txt">>) = <<<<"a">>, <<"q">>, <<"b">>>>

(* C23: for an alphanumeric brand name, every mention recorded for a match *)
(* at [start, end) of the text holds the start of the match and, as its    *)
(* context, the text from max(0, start - 50) to min(len(text), end + 50),  *)
(* with the whitespace at the ends of that span.                           *)
C23_ContextWindow ==
    (pc = "found" /\ IsAlnumStr(your_brands[1])) =>
        \A i \in DOMAIN mentions : \A j \in DOMAIN mentions[i][2] :
            LET brand   == mentions[i][1]
                start   == mentions[i][2][j][1]
                end     == start + Len(brand)
                context == mentions[i][2][j][2]
            IN  /\ end <= Len(text)
                /\ \A k \in 1..Len(brand) :
                      FoldChar(text[start + k]) = FoldChar(brand[k])
                /\ context = Slice(text, Max(0, start - ContextChars),
                                   Min(Len(text), end + ContextChars))

(* a name as the spec normalises it: no upper-case letter, no whitespace   *)
(* at its ends                                                             *)
IsNormalised(name) ==
    /\ \A i \in DOMAIN name : ~IsUpper(name[i]) /\ name[i] # "I_DOT"
    /\ name # <<>> => name[1] \notin Whitespace /\ name[Len(name)] \notin Whitespace

(* two configured names are one name: they differ in letter case and in    *)
(* surrounding whitespace only                                             *)
SameName(m, n) == strip(lower(m)) = strip(lower(n))

(* the list with every name configured a single time: its first entry *)
Once(brands) ==
    SelectSeq([i \in DOMAIN brands |->
                  <<brands[i], \A j \in 1..(i - 1) : ~SameName(brands[j], brands[i])>>],
              LAMBDA entry : entry[2])

OnceNames(brands) == [i \in DOMAIN Once(brands) |-> Once(brands)[i][1]]

RepeatedName(brands) == Len(OnceNames(brands)) < Len(brands)

(* the report of the same audit with every name configured once *)
AuditedOnce ==
    AuditOf(BrandAuditor_init(OnceNames(your_brands), OnceNames(competitor_brands)),
            Results, argv.responses_file, clock)

(* the brand keys of a report *)
ReportKeys(report) ==
    Range(DictKeys(report.brand_statistics.your_brands))
    \cup Range(DictKeys(report.brand_statistics.competitors))
    \cup UNION {Range(report.response_analyses[i].your_brands_mentioned)
                \cup Range(report.response_analyses[i].competitor_brands_mentioned)
                \cup Range(DictKeys(report.response_analyses[i].your_brand_mentions))
                \cup Range(DictKeys(report.response_analyses[i].competitor_mentions))
                : i \in DOMAIN report.response_analyses}

(* C24: the auditor holds every configured name in lower case and trimmed, *)
(* every brand key of the report is such a name, and a name configured     *)
(* several times in a list (in other letter case or with whitespace        *)
(* around it) is counted as when it is configured once: the report is that *)
(* of the lists without the repetitions.                                   *)
C24_NormalisedOnce ==
    Audited =>
        /\ Len(auditor.your_brands) = Len(your_brands)
        /\ Len(auditor.competitor_brands) = Len(competitor_brands)
        /\ \A i \in DOMAIN your_brands :
              /\ IsNormalised(auditor.your_brands[i])
              /\ SameName(auditor.your_brands[i], your_brands[i])
        /\ \A i \in DOMAIN competitor_brands :
              /\ IsNormalised(auditor.competitor_brands[i])
              /\ SameName(auditor.competitor_brands[i], competitor_brands[i])
        /\ \A key \in ReportKeys(audit_results) :
              InList(key, auditor.your_brands \o auditor.competitor_brands)
        /\ audit_results = AuditedOnce

C24_Witness ==
    /\ Audited
    /\ your_brands = <<<<" ", "A">>, <<"a">>>>
    /\ RepeatedName(your_brands)
    /\ Results = <<[question |-> <<>>, response |-> <<"a", " ", "A">>]>>
    /\ Analyses[1].your_brand_count = 2
    /\ Analyses[1].your_brands_mentioned = <<<<"a">>>>
    /\ audit_results = AuditedOnce

(* the configured name, letter case apart, stands at [p, p + len) of text *)
OccursAt(name, p) ==
    /\ p + Len(name) <= Len(text)
    /\ \A k \in 1..Len(name) : FoldChar(text[p + k]) = FoldChar(name[k])

(* whitespace or an end of the text on both sides of [p, e) *)
Delimited(p, e) ==
    /\ p = 0 \/ text[p] \in Whitespace
    /\ e = Len(text) \/ text[e + 1] \in Whitespace

(* a word character right before or right after [p, e) *)
TouchesWord(p, e) ==
    \/ p > 0 /\ IsWordChar(text[p])
    \/ e < Len(text) /\ IsWordChar(text[e + 1])

MentionedAt(p) ==
    \E i \in DOMAIN mentions : \E j \in DOMAIN mentions[i][2] : mentions[i][2][j][1] = p

(* C25: whatever characters a brand name begins and ends with, every       *)
(* mention is an occurrence of the name, an occurrence of the name between *)
(* whitespace or the ends of the text is a mention, and an occurrence with *)
(* a word character right before or after it is none.  (Names and texts    *)
(* with U+0130 are left to C4.)                                            *)
C25_NonWordNames ==
    (pc = "found" /\ "I_DOT" \notin Range(text) \cup Range(your_brands[1])) =>
        \A p \in 0..Len(text) :
            LET name == auditor.your_brands[1]
                e    == p + Len(name)
            IN  /\ MentionedAt(p) => OccursAt(name, p)
                /\ (OccursAt(name, p) /\ Delimited(p, e)) => MentionedAt(p)
                /\ (OccursAt(name, p) /\ TouchesWord(p, e)) => ~MentionedAt(p)

(* the same for the names that begin and end with a word character *)
C25_WordNames ==
    IsWordChar(your_brands[1][1]) /\ IsWordChar(your_brands[1][Len(your_brands[1])])
        => C25_NonWordNames

(* the mentions of own brands in a result of find_brand_mentions *)
OwnCount(found) ==
    Sum([i \in DOMAIN found |->
            IF InList(found[i][1], auditor.your_brands) THEN Len(found[i][2]) ELSE 0])

(* <<own, competitor>> mentions found in one text searched alone *)
CountsIn(t) ==
    The({ <<OwnCount(found), MentionCount(found) - OwnCount(found)>>
          : found \in {find_brand_mentions(auditor, t)} })

QuestionOf(r) == Get(r, "question", <<>>)

ResponseOf(r) == Get(r, "response", <<>>)

(* the mentions of record i are those of its question and those of its     *)
(* response, each counted where it stands: none is lost, none spans both   *)
CountedApart(i) ==
    \E inQuestion \in {CountsIn(QuestionOf(Results[i]))} :
    \E inResponse \in {CountsIn(ResponseOf(Results[i]))} :
        /\ Analyses[i].your_brand_count = inQuestion[1] + inResponse[1]
        /\ Analyses[i].competitor_count = inQuestion[2] + inResponse[2]
        /\ Analyses[i].has_your_brands = (inQuestion[1] + inResponse[1] > 0)
        /\ Analyses[i].has_competitors = (inQuestion[2] + inResponse[2] > 0)

(* no mention of the question or of the response is lost in the joined text *)
CountedAtLeast(i) ==
    \E inQuestion \in {CountsIn(QuestionOf(Results[i]))} :
    \E inResponse \in {CountsIn(ResponseOf(Results[i]))} :
        /\ Analyses[i].your_brand_count >= inQuestion[1] + inResponse[1]
        /\ Analyses[i].competitor_count >= inQuestion[2] + inResponse[2]
        /\ inQuestion[1] + inResponse[1] > 0 => Analyses[i].has_your_brands
        /\ inQuestion[2] + inResponse[2] > 0 => Analyses[i].has_competitors

(* a configured name holds a blank line, the separator of the joined text *)
HasBlankLine(name) ==
    \E k \in 1..(Len(name) - 1) : name[k] = "\n" /\ name[k + 1] = "\n"

BlankLineName == \E i \in DOMAIN auditor.all_brands : HasBlankLine(auditor.all_brands[i])

(* C26: the mentions of a record are the mentions in its question and the  *)
(* mentions in its response, counted alike and raising the same flags, and *)
(* no mention spans the separator between the two; response_length is the  *)
(* length of the response.                                                 *)
C26_QuestionAndResponse ==
    Audited =>
        \A i \in DOMAIN Results :
            /\ CountedApart(i)
            /\ Analyses[i].response_length = Len(ResponseOf(Results[i]))

(* C26 as the code has it: a match spans the separator only for a name     *)
(* that itself holds a blank line.                                         *)
C26_JoinedText ==
    Audited =>
        \A i \in DOMAIN Results :
            /\ CountedAtLeast(i)
            /\ ~BlankLineName => CountedApart(i)
            /\ Analyses[i].response_length = Len(ResponseOf(Results[i]))

C26_Witness ==
    /\ Audited
    /\ your_brands = <<<<"a">>>>
    /\ competitor_brands = <<<<"B">>>>
    /\ Results = <<[question |-> <<"a">>, response |-> <<"b">>]>>
    /\ Analyses[1].has_your_brands
    /\ Analyses[1].your_brand_count = 1
    /\ Analyses[1].competitor_count = 1
    /\ CountsIn(<<"a">>) = <<1, 0>>
    /\ Analyses[1].response_length = 1

(* the occurrences of one name in a text: what an auditor of that name     *)
(* alone finds                                                             *)
OccurrencesOf(name, t) ==
    MentionCount(find_brand_mentions(BrandAuditor_init(<<name>>, <<>>), t))

(* the occurrences in t of the names of a set, each name taken once *)
RECURSIVE OccurrencesOfAll(_, _)
OccurrencesOfAll(names, t) ==
    IF names = {} THEN 0
    ELSE LET name == CHOOSE n \in names : TRUE
         IN  OccurrencesOf(name, t) + OccurrencesOfAll(names \ {name}, t)

OwnNames == Range(auditor.your_brands)

CompetitorNames == Range(auditor.competitor_brands)

(* C27: in every record no brand is listed in both groups; the own count   *)
(* is the number of occurrences of the own names, the competitor count     *)
(* that of the competitor names that are no own names, and total_mentions  *)
(* that of all names, a name configured in both groups taken once.         *)
C27_OneGroup ==
    Audited =>
        \A i \in DOMAIN Results :
            \E full_text \in {FullTextOf(Results[i])} :
                /\ Range(Analyses[i].your_brands_mentioned)
                      \cap Range(Analyses[i].competitor_brands_mentioned) = {}
                /\ Range(Analyses[i].your_brands_mentioned) \subseteq OwnNames
                /\ Range(Analyses[i].competitor_brands_mentioned)
                      \subseteq CompetitorNames \ OwnNames
                /\ Analyses[i].your_brand_count = OccurrencesOfAll(OwnNames, full_text)
                /\ Analyses[i].competitor_count
                      = OccurrencesOfAll(CompetitorNames \ OwnNames, full_text)
                /\ Analyses[i].total_mentions
                      = OccurrencesOfAll(OwnNames \cup CompetitorNames, full_text)

C27_Witness ==
    /\ Audited
    /\ your_brands = <<<<"a">>>>
    /\ competitor_brands = <<<<"A">>, <<"b">>>>
    /\ OwnNames \cap CompetitorNames = {<<"a">>}
    /\ Results = <<[response |-> <<"B", " ", "a">>]>>
    /\ Analyses[1].your_brands_mentioned = <<<<"a">>>>
    /\ Analyses[1].competitor_brands_mentioned = <<<<"b">>>>
    /\ Analyses[1].total_mentions = 2

(* the sum of total_mentions over the entries of one group of              *)
(* brand_statistics                                                        *)
StatsTotal(stats) == Sum([e \in DOMAIN stats |-> stats[e][2].total_mentions])

(* C28: in every report, each record has total_mentions = your_brand_count *)
(* + competitor_count and a presence flag exactly when the group's count   *)
(* is positive; the summary's mention totals are the sums of the records'  *)
(* counts and the sums of total_mentions over the group's entries of       *)
(* brand_statistics; with own + with competitors - with both + with        *)
(* neither = total_responses.                                              *)
C28_ReportConsistent ==
    Audited =>
        /\ \A i \in DOMAIN Analyses :
              /\ Analyses[i].total_mentions
                    = Analyses[i].your_brand_count + Analyses[i].competitor_count
              /\ Analyses[i].has_your_brands = (Analyses[i].your_brand_count > 0)
              /\ Analyses[i].has_competitors = (Analyses[i].competitor_count > 0)
        /\ Summary.total_your_brand_mentions
              = Sum([i \in DOMAIN Analyses |-> Analyses[i].your_brand_count])
        /\ Summary.total_your_brand_mentions
              = StatsTotal(audit_results.brand_statistics.your_brands)
        /\ Summary.total_competitor_mentions
              = Sum([i \in DOMAIN Analyses |-> Analyses[i].competitor_count])
        /\ Summary.total_competitor_mentions
              = StatsTotal(audit_results.brand_statistics.competitors)
        /\ Summary.responses_with_your_brands + Summary.responses_with_competitors
              - Summary.responses_with_both + Summary.responses_with_neither
              = Summary.total_responses

C28_Witness ==
    /\ Audited
    /\ Len(Analyses) = 3
    /\ Analyses[1].your_brand_count = 2
    /\ Analyses[2].competitor_count = 1
    /\ Analyses[2].has_your_brands
    /\ ~Analyses[3].has_your_brands /\ ~Analyses[3].has_competitors
    /\ Summary.total_your_brand_mentions = 3
    /\ Summary.responses_with_both = 1
    /\ Summary.responses_with_neither = 1

(* the questions whose call of ask_question returned a record, in the      *)
(* order of the calls                                                      *)
Successes ==
    LET calls == [k \in DOMAIN outcomes |-> <<asked[k], outcomes[k]>>]
        good  == SelectSeq(calls, LAMBDA call : call[2])
    IN  [k \in DOMAIN good |-> good[k][1]]

QuestionsOf(records) == [k \in DOMAIN records |-> records[k].question]

(* ask_questions has returned *)
AskedAll == pc \in {"save_results", "exit"}

(* the file save_results wrote *)
SavedOutput == fs[opened[Len(opened)][1]].data

(* C29: ask_question is called with the questions of the list, one after   *)
(* the other and each once, whatever the earlier calls returned; the list  *)
(* ask_questions returns and the results of the instance hold one record   *)
(* for every call that succeeded, in the order of the questions, and none  *)
(* for a call that failed; the saved file holds these records and their    *)
(* number as total_questions.                                              *)
C29_AskQuestions ==
    /\ IsPrefix(asked, questions)
    /\ Len(outcomes) <= Len(asked)
    /\ Len(asked) <= Len(outcomes) + 1
    /\ AskedAll => asked = questions /\ Len(outcomes) = Len(questions)
    /\ question_results = self_results
    /\ QuestionsOf(self_results) = Successes
    /\ pc = "exit" =>
          /\ SavedOutput.results = self_results
          /\ SavedOutput.total_questions = Len(Successes)

C29_Witness ==
    /\ pc = "exit"
    /\ questions = <<<<"q">>, <<"c">>>>
    /\ outcomes = <<FALSE, TRUE>>
    /\ asked = questions
    /\ QuestionsOf(question_results) = <<<<"c">>>>
    /\ SavedOutput.total_questions = 1
    /\ QuestionsOf(SavedOutput.results) = <<<<"c">>>>

(* the polling loop runs *)
Polling == pc = "wait_for_response_complete"

(* C30: an iteration of the polling loop ends the loop or adds the check   *)
(* interval of 2 seconds to waited, whatever the page shows; the loop      *)
(* makes 15 iterations and waits 30 seconds at most, and it ends.          *)
C30_PollingEnds ==
    /\ [][Poll => (pc' = "extract" \/ waited' = waited + 2)]_vars
    /\ [](polls <= 15 /\ waited <= 30)
    /\ (Polling ~> pc = "extract")

C30_Witness ==
    /\ pc = "extract"
    /\ polls = 15
    /\ waited = 30

============================================================================
